---- MODULE Spec2Model ----
(***************************************************************************)
(* The kitchen/sales relay of the cafeteria POS (scripts/kitchen-ws-       *)
(* server.js): two in-memory Maps, a set of WebSocket connections, and one *)
(* synchronous handler per inbound frame; then the client pages that talk  *)
(* to it (waiter terminal, kitchen display, admin dashboard) and the       *)
(* payment step of order creation (app/api/orders/route.ts).               *)
(*                                                                         *)
(* JavaScript values are modelled as tagged records so that the coercions  *)
(* the relay relies on (truthiness, typeof, String(), Number(),            *)
(* JSON.stringify) are computed rather than assumed.                       *)
(***************************************************************************)
EXTENDS Integers, Sequences, FiniteSets, TLC

VARIABLES activeTickets, salesByDay, readyState, outbox, inFlight, last, applied, now, running,
          pages, order

\* the relay's state
relayVars == <<activeTickets, salesByDay, readyState, outbox, inFlight, last, applied, now, running>>

\* pages: the client pages that are mounted; order: the order being created
vars == <<activeTickets, salesByDay, readyState, outbox, inFlight, last, applied, now, running,
          pages, order>>

(***************************************************************************)
(* Bounds of the model.                                                    *)
(***************************************************************************)
\* connections ever accepted by the relay
MaxConn == 2
\* mutations the relay applies
MaxApplied == 3
\* last instant of the wall clock
MaxTime == 2

\* clock instants per local calendar day
TicksPerDay == 2

(***************************************************************************)
(* JavaScript / JSON values.                                               *)
(***************************************************************************)
JUndef == [k |-> "undefined"]
JNull == [k |-> "null"]
JNaN == [k |-> "NaN"]
\* the number Infinity: what JSON.parse makes of 1e999 and Number() of "Infinity"
JInf == [k |-> "Infinity"]
JBool(b) == [k |-> "boolean", b |-> b]
JNum(n) == [k |-> "number", n |-> n]
JStr(s) == [k |-> "string", s |-> s]
JArr(a) == [k |-> "array", a |-> a]
JObj(f) == [k |-> "object", f |-> f]

\* typeof v
TypeOf(v) ==
  CASE v.k = "undefined" -> "undefined"
    [] v.k = "boolean" -> "boolean"
    [] v.k \in {"number", "NaN", "Infinity"} -> "number"
    [] v.k = "string" -> "string"
    [] OTHER -> "object"

\* !!v
Truthy(v) ==
  CASE v.k \in {"undefined", "null", "NaN"} -> FALSE
    [] v.k = "boolean" -> v.b
    [] v.k = "number" -> v.n # 0
    [] v.k = "string" -> v.s # ""
    [] OTHER -> TRUE

\* v.name throws a TypeError when v is null or undefined
Throws(v) == v.k \in {"undefined", "null"}

\* v.name for a value that is not null or undefined
Get(v, name) ==
  IF v.k = "object" /\ name \in DOMAIN v.f THEN v.f[name] ELSE JUndef

\* the decimal numerals the relay is given as strings
Numerals == -9..99

\* String(v)
ToStr(v) ==
  CASE v.k = "string" -> v.s
    [] v.k = "number" -> ToString(v.n)
    [] v.k = "NaN" -> "NaN"
    [] v.k = "boolean" -> IF v.b THEN "true" ELSE "false"
    [] v.k = "array" -> IF v.a = <<>> THEN "" ELSE "[array]"
    [] v.k = "object" -> "[object Object]"
    [] OTHER -> v.k

\* Number(v)
ToNum(v) ==
  CASE v.k \in {"number", "Infinity"} -> v
    [] v.k = "string" ->
         IF v.s = "" THEN JNum(0)
         ELSE IF v.s = "Infinity" THEN JInf
         ELSE IF \E n \in Numerals : ToString(n) = v.s
              THEN JNum(CHOOSE n \in Numerals : ToString(n) = v.s)
              ELSE JNaN
    [] v.k = "boolean" -> JNum(IF v.b THEN 1 ELSE 0)
    [] v.k = "null" -> JNum(0)
    [] v.k = "array" -> IF v.a = <<>> THEN JNum(0) ELSE JNaN
    [] OTHER -> JNaN

\* a || b
Or(a, b) == IF Truthy(a) THEN a ELSE b

\* JSON.stringify of a number: NaN and Infinity are written as null
WireNum(v) == IF v.k \in {"NaN", "Infinity"} THEN JNull ELSE v

\* Math.max(1, v) for a number v that is not NaN
MathMax1(v) == IF v.k = "Infinity" THEN v ELSE JNum(IF v.n > 1 THEN v.n ELSE 1)

(***************************************************************************)
(* The wall clock, Date parsing and formatting.                            *)
(***************************************************************************)
Instants == 0..MaxTime

\* local calendar day of an instant
DayOf(t) == t \div TicksPerDay

\* YYYY-MM-DD of a local calendar day
DayKey(d) == "2024-01-0" \o ToString(d + 1)

\* Date.prototype.toISOString
toISOString(t) ==
  DayKey(DayOf(t)) \o "T" \o ToString(10 + (t % TicksPerDay)) \o ":00:00.000Z"

\* new Date(string).getTime(): -1 stands for NaN (Invalid Date)
ParseDate(s) ==
  IF \E t \in Instants : toISOString(t) = s
  THEN CHOOSE t \in Instants : toISOString(t) = s
  ELSE -1

(***************************************************************************)
(* JavaScript Map: a sequence of <<key, value>> in insertion order.        *)
(***************************************************************************)
MapIndex(m, key) ==
  IF \E i \in 1..Len(m) : m[i][1] = key
  THEN CHOOSE i \in 1..Len(m) : m[i][1] = key
  ELSE 0

MapHas(m, key) == MapIndex(m, key) # 0

\* Map.prototype.get for a key that is present
MapGet(m, key) == m[MapIndex(m, key)][2]

\* a bug: delete() leaves the entry in place
MapDeleteKeeps(m, key) == m

\* Map.prototype.delete
MapDelete(m, key) ==
  IF MapHas(m, key)
  THEN SubSeq(m, 1, MapIndex(m, key) - 1) \o SubSeq(m, MapIndex(m, key) + 1, Len(m))
  ELSE m

\* a bug: set() of a present key keeps the value it has
MapSetKeepsFirst(m, key, value) == IF MapHas(m, key) THEN m ELSE Append(m, <<key, value>>)

\* a bug: set() of a present key moves it to the end
MapSetMovesToEnd(m, key, value) == Append(MapDelete(m, key), <<key, value>>)

\* a bug: set() of a present key appends a second entry
MapSetAppend(m, key, value) == Append(m, <<key, value>>)

\* Map.prototype.set: a present key keeps its position
MapSet(m, key, value) ==
  IF MapHas(m, key)
  THEN [m EXCEPT ![MapIndex(m, key)] = <<key, value>>]
  ELSE Append(m, <<key, value>>)

\* a bug: the values are read without the newest entry
MapValuesButLast(m) == [i \in 1..(IF m = <<>> THEN 0 ELSE Len(m) - 1) |-> m[i][2]]

\* Array.from(map.values())
MapValues(m) == [i \in 1..Len(m) |-> m[i][2]]

MapKeys(m) == [i \in 1..Len(m) |-> m[i][1]]

(***************************************************************************)
(* Normalisation of inbound payloads.                                      *)
(***************************************************************************)
\* the value normalizeTicket / normalizeSale return for a rejected payload
Rejected == JNull

\* the item callback of ticket.items.map(...)
normalizeItem(item) ==
  [id |-> ToStr(Get(item, "id")),
   name |-> ToStr(Get(item, "name")),
   quantity |-> MathMax1(Or(ToNum(Get(item, "quantity")), JNum(1)))]

\* the callback of .filter(...)
hasName(item) == item.name # ""

\* the guards of normalizeTicket
ticketGuardsPass(ticket) ==
  /\ Truthy(ticket)
  /\ TypeOf(ticket) = "object"
  /\ Truthy(Get(ticket, "id"))
  /\ Truthy(Get(ticket, "receiptNo"))
  /\ Get(ticket, "items").k = "array"

\* normalizeTicket throws: item.id is read on a null or undefined entry
normalizeTicketThrows(ticket) ==
  /\ ticketGuardsPass(ticket)
  /\ \E i \in 1..Len(Get(ticket, "items").a) : Throws(Get(ticket, "items").a[i])

\* a bug: the status sent by the producer is stored as it is
normalizeStatusKeep(status) == IF status.k = "string" THEN status.s ELSE "new"

\* ticket.status === "in_progress" ? "in_progress" : "new"
normalizeStatus(status) == IF status = JStr("in_progress") THEN "in_progress" ELSE "new"

\* normalizeTicket, for a payload on which it does not throw; t is the clock
normalizeTicket(ticket, t) ==
  IF ~ticketGuardsPass(ticket) THEN Rejected
  ELSE
    [id |-> ToStr(Get(ticket, "id")),
     receiptNo |-> ToNum(Get(ticket, "receiptNo")),
     createdAt |-> ToStr(Or(Get(ticket, "createdAt"), JStr(toISOString(t)))),
     note |-> IF Truthy(Get(ticket, "note")) THEN JStr(ToStr(Get(ticket, "note"))) ELSE JNull,
     status |-> normalizeStatus(Get(ticket, "status")),
     items |->
       LET raw == Get(ticket, "items").a
       IN SelectSeq([i \in 1..Len(raw) |-> normalizeItem(raw[i])], hasName)]

\* a bug: every date is given today's key
toDayKeyToday(time, t) == DayKey(DayOf(t))

\* toDayKey; time is the getTime() of the date, -1 for an Invalid Date
toDayKey(time, t) ==
  IF time = -1 THEN DayKey(DayOf(t)) ELSE DayKey(DayOf(time))

\* a bug: only a negative total is reset
clampTotalNegative(total) == IF total.k = "number" /\ total.n < 0 THEN JNum(0) ELSE total

\* if (!Number.isFinite(total) || total < 0) total = 0, for a total that is not NaN
clampTotal(total) == IF total.k = "Infinity" \/ total.n < 0 THEN JNum(0) ELSE total

\* normalizeSale; t is the clock
normalizeSale(sale, t) ==
  IF ~(Truthy(sale) /\ TypeOf(sale) = "object") THEN Rejected
  ELSE IF ~(/\ Truthy(Get(sale, "id"))
            /\ Truthy(Get(sale, "receiptNo"))
            /\ Truthy(Get(sale, "waiterName"))) THEN Rejected
  ELSE
    [id |-> ToStr(Get(sale, "id")),
     receiptNo |-> ToNum(Get(sale, "receiptNo")),
     waiterName |-> ToStr(Get(sale, "waiterName")),
     total |-> clampTotal(Or(ToNum(Get(sale, "total")), JNum(0))),
     createdAt |-> ToStr(Or(Get(sale, "createdAt"), JStr(toISOString(t))))]

\* JSON.stringify of a ticket or a sale: a number that is NaN or Infinity is
\* written as null
Wire(record) ==
  IF "items" \in DOMAIN record
  THEN [record EXCEPT !.receiptNo = WireNum(@),
                      !.items = [i \in 1..Len(@) |-> [@[i] EXCEPT !.quantity = WireNum(@)]]]
  ELSE [record EXCEPT !.receiptNo = WireNum(@), !.total = WireNum(@)]

WireAll(records) == [i \in 1..Len(records) |-> Wire(records[i])]

(***************************************************************************)
(* Frames the clients send.                                                *)
(***************************************************************************)
\* f with field name set to v
With(f, name, v) == [n \in DOMAIN f \cup {name} |-> IF n = name THEN v ELSE f[n]]

\* f without field name
Without(f, name) == [n \in DOMAIN f \ {name} |-> f[n]]

Item(id, name, quantity) == JObj([id |-> JStr(id), name |-> JStr(name), quantity |-> quantity])

\* a ticket as the waiter terminal sends it
TicketFields(id) ==
  [id |-> JStr(id),
   receiptNo |-> JNum(1),
   createdAt |-> JStr(toISOString(0)),
   items |-> JArr(<<Item("i1", "Coffee", JNum(2))>>)]

\* the same ticket sent again with every field revised
RevisedFields(id) ==
  [id |-> JStr(id),
   receiptNo |-> JStr("2"),
   note |-> JStr("no ice"),
   status |-> JStr("in_progress"),
   items |-> JArr(<<Item("i3", "", JNum(1)),
                    Item("i1", "Coffee", JNum(0)),
                    Item("i2", "Tea", JNum(-5)),
                    Item("i4", "Juice", JStr("two")),
                    Item("i5", "Water", JStr("3"))>>)]

\* a ticket sent as already done
DoneFields(id) == With(With(TicketFields(id), "status", JStr("done")), "note", JStr(""))

\* a ticket a careless producer sends
OddFields(id) ==
  [id |-> JStr(id),
   receiptNo |-> JStr("abc"),
   createdAt |-> JStr("yesterday"),
   items |-> JArr(<<JNum(5), Item("i9", "Soda", JInf)>>)]

TicketPayloads ==
  {JObj(TicketFields("t1")), JObj(RevisedFields("t1")), JObj(DoneFields("t2")),
   JObj(OddFields("t2"))}
    \cup {JObj(Without(TicketFields("t1"), n)) : n \in {"id", "receiptNo", "items"}}
    \cup {JObj(With(TicketFields("t1"), "id", JStr(""))),
          JObj(With(TicketFields("t1"), "items", JArr(<<Item("i1", "Coffee", JNum(2)), JNull>>))),
          JStr("t1")}

StatusPayloads ==
  {JObj([id |-> JStr(id), status |-> JStr(st)]) :
     id \in {"t1", "t2"}, st \in {"new", "in_progress", "done", "cancelled"}}
    \cup {JObj([id |-> JStr("t9"), status |-> JStr("done")]),
          JObj([id |-> JStr("t1")]),
          JObj([status |-> JStr("done")]),
          JStr("t1")}

\* a sale as the waiter terminal sends it
SaleFields(id, at) ==
  [id |-> JStr(id),
   receiptNo |-> JNum(5),
   waiterName |-> JStr("Waiter-1"),
   total |-> JNum(12),
   createdAt |-> JStr(at)]

SalePayloads ==
  LET base == SaleFields("s1", toISOString(0))
  IN {JObj(base)}
       \cup {JObj(Without(base, n)) : n \in {"id", "receiptNo", "waiterName"}}
       \cup {JObj(With(base, "waiterName", JStr(""))), JNull}

\* a frame is a text that JSON.parse rejects, or the text of a JSON value
Unparseable == [ok |-> FALSE]

Text(value) == [ok |-> TRUE, value |-> value]

Envelope(type, payload) == Text(JObj([type |-> JStr(type), payload |-> payload]))

Frames ==
  {Envelope("NEW_ORDER", p) : p \in TicketPayloads}
    \cup {Envelope("UPDATE_ORDER_STATUS", p) : p \in StatusPayloads}
    \cup {Envelope("NEW_SALE", p) : p \in SalePayloads}
    \cup {Unparseable, Text(JNull), Text(JNum(7)), Text(JStr("NEW_ORDER")), Text(JBool(TRUE)),
          Text(JObj([payload |-> JObj(TicketFields("t1"))])),
          Envelope("PING", JObj(TicketFields("t1")))}

\* safeParse
safeParse(raw) == IF raw.ok THEN raw.value ELSE JNull

(***************************************************************************)
(* The relay.                                                              *)
(***************************************************************************)
Conns == 1..MaxConn

\* no message event is being dispatched
NoFrame == [conn |-> 0]

\* wss.clients
Clients(rs) == {c \in Conns : rs[c] \in {"OPEN", "CLOSING"}}

\* a bug: the broadcast does not look at the state of a client
broadcastAllClients(ob, rs, message) ==
  [c \in Conns |-> IF c \in Clients(rs) THEN Append(ob[c], message) ELSE ob[c]]

\* a bug: the originating connection is left out of the broadcast
broadcastToOthers(ob, rs, message) ==
  [c \in Conns |->
     IF c \in Clients(rs) /\ rs[c] = "OPEN" /\ c # inFlight.conn
     THEN Append(ob[c], message) ELSE ob[c]]

\* broadcast(message)
broadcast(ob, rs, message) ==
  [c \in Conns |->
     IF c \in Clients(rs) /\ rs[c] = "OPEN" THEN Append(ob[c], message) ELSE ob[c]]

\* a bug: the snapshots go to every client
sendToAll(ob, rs, client, message) == broadcast(ob, rs, message)

\* send(client, message)
send(ob, rs, client, message) ==
  IF rs[client] # "OPEN" THEN ob ELSE [ob EXCEPT ![client] = Append(@, message)]

\* a bug: the snapshot carries the oldest bucket
oldestSales(m, day) == IF m = <<>> THEN <<>> ELSE m[1][2]

\* salesByDay.get(day) || []
salesOf(m, day) == IF MapHas(m, day) THEN MapGet(m, day) ELSE <<>>

\* the relay after start-up
RelayInit ==
  /\ activeTickets = <<>>
  /\ salesByDay = <<>>
  /\ readyState = [c \in Conns |-> "CONNECTING"]
  /\ outbox = [c \in Conns |-> <<>>]
  /\ inFlight = NoFrame
  /\ last = [type |-> "none", outcome |-> "none"]
  /\ applied = 0
  /\ now = 0
  /\ running = TRUE

\* no page is mounted
NoPages == <<>>

\* no order is being created
NoOrder == [step |-> "none"]

\* the relay alone
Init == RelayInit /\ pages = NoPages /\ order = NoOrder

\* wss.on("connection"): the handshake of the next connection completes
Connect(c) ==
  /\ running
  /\ inFlight = NoFrame
  /\ readyState[c] = "CONNECTING"
  /\ \A d \in Conns : d < c => readyState[d] # "CONNECTING"
  /\ readyState' = [readyState EXCEPT ![c] = "OPEN"]
  /\ LET snapshot == MapValues(activeTickets)
         day == toDayKey(now, now)
         first == send(outbox, readyState', c,
                       [type |-> "ORDER_SNAPSHOT", payload |-> JArr(WireAll(snapshot))])
     IN outbox' = send(first, readyState', c,
                       [type |-> "SALES_SNAPSHOT",
                        payload |-> [day |-> day,
                                     sales |-> WireAll(salesOf(salesByDay, day))]])
  /\ UNCHANGED <<activeTickets, salesByDay, inFlight, last, applied, now, running>>

\* the message type of a frame, "none" when it has no recognised type
FrameType(raw) ==
  LET message == safeParse(raw)
      type == IF Truthy(message) /\ TypeOf(message) = "object"
              THEN Get(message, "type") ELSE JUndef
  IN IF type \in {JStr("NEW_ORDER"), JStr("UPDATE_ORDER_STATUS"), JStr("NEW_SALE")}
     THEN type.s ELSE "none"

\* a bug: a "message" event is dispatched while a frame is being handled
DeliverWhileHandling(c, raw) ==
  /\ running
  /\ readyState[c] = "OPEN"
  /\ applied < MaxApplied
  /\ inFlight' = [conn |-> c, raw |-> raw]
  /\ UNCHANGED <<activeTickets, salesByDay, readyState, outbox, last, applied, now, running>>

\* a "message" event of connection c is dispatched with frame raw
Deliver(c, raw) ==
  /\ running
  /\ inFlight = NoFrame
  /\ readyState[c] = "OPEN"
  /\ applied < MaxApplied
  /\ inFlight' = [conn |-> c, raw |-> raw]
  /\ UNCHANGED <<activeTickets, salesByDay, readyState, outbox, last, applied, now, running>>

\* a bug: a rejected frame is answered with an error message
DroppedWithReply(type) ==
  /\ last' = [type |-> type, outcome |-> "dropped"]
  /\ outbox' = send(outbox, readyState, inFlight.conn,
                    [type |-> "ERROR", payload |-> [reason |-> type]])
  /\ UNCHANGED <<activeTickets, salesByDay, applied, running>>

\* a return of the handler that has changed nothing
Dropped(type) ==
  /\ last' = [type |-> type, outcome |-> "dropped"]
  /\ UNCHANGED <<activeTickets, salesByDay, outbox, applied, running>>

\* the NEW_ORDER branch
HandleNewOrder(payload) ==
  IF normalizeTicketThrows(payload)
  THEN \* the TypeError leaves the listener uncaught and ends the process
       /\ running' = FALSE
       /\ last' = [type |-> "NEW_ORDER", outcome |-> "threw"]
       /\ UNCHANGED <<activeTickets, salesByDay, outbox, applied>>
  ELSE LET ticket == normalizeTicket(payload, now)
       IN IF ticket = Rejected
          THEN Dropped("NEW_ORDER")
          ELSE /\ activeTickets' = MapSet(activeTickets, ticket.id, ticket)
               /\ outbox' = broadcast(outbox, readyState,
                                      [type |-> "NEW_ORDER", payload |-> Wire(ticket)])
               /\ last' = [type |-> "NEW_ORDER", outcome |-> "applied"]
               /\ applied' = applied + 1
               /\ UNCHANGED <<salesByDay, running>>

\* a bug: any status string is taken
anyStatus(status) == status.k = "string"

\* status === "done", or status === "new" || status === "in_progress"
validStatus(status) == status \in {JStr("done"), JStr("new"), JStr("in_progress")}

\* a bug: the updated ticket is rebuilt and loses its note
withStatusOnly(existing, status) == [existing EXCEPT !.status = status, !.note = JNull]

\* { ...existing, status }
withStatus(existing, status) == [existing EXCEPT !.status = status]

\* the UPDATE_ORDER_STATUS branch
HandleUpdateOrderStatus(payload) ==
  IF ~Truthy(payload) \/ TypeOf(payload) # "object" \/ ~Truthy(Get(payload, "id"))
  THEN Dropped("UPDATE_ORDER_STATUS")
  ELSE IF ~MapHas(activeTickets, ToStr(Get(payload, "id")))
  THEN Dropped("UPDATE_ORDER_STATUS")
  ELSE LET existing == MapGet(activeTickets, ToStr(Get(payload, "id")))
           status == Get(payload, "status")
       IN IF ~validStatus(status)
          THEN Dropped("UPDATE_ORDER_STATUS")
          ELSE /\ activeTickets' =
                    IF status = JStr("done")
                    THEN MapDelete(activeTickets, existing.id)
                    ELSE MapSet(activeTickets, existing.id, withStatus(existing, status.s))
               /\ outbox' = broadcast(outbox, readyState,
                                      [type |-> "UPDATE_ORDER_STATUS",
                                       payload |-> [id |-> existing.id, status |-> status.s]])
               /\ last' = [type |-> "UPDATE_ORDER_STATUS", outcome |-> "applied"]
               /\ applied' = applied + 1
               /\ UNCHANGED <<salesByDay, running>>

\* a bug: the day's list is started again with each sale
pushAlone(daySales, sale) == <<sale>>

\* daySales.push(sale)
push(daySales, sale) == Append(daySales, sale)

\* the NEW_SALE branch
HandleNewSale(payload) ==
  LET sale == normalizeSale(payload, now)
  IN IF sale = Rejected
     THEN Dropped("NEW_SALE")
     ELSE LET day == toDayKey(ParseDate(sale.createdAt), now)
              daySales == salesOf(salesByDay, day)
          IN /\ salesByDay' = MapSet(salesByDay, day, push(daySales, sale))
             /\ outbox' = broadcast(outbox, readyState,
                                    [type |-> "NEW_SALE", payload |-> Wire(sale)])
             /\ last' = [type |-> "NEW_SALE", outcome |-> "applied"]
             /\ applied' = applied + 1
             /\ UNCHANGED <<activeTickets, running>>

\* socket.on("message"): the whole handler, for the frame being dispatched
HandleMessage ==
  /\ running
  /\ inFlight # NoFrame
  /\ LET message == safeParse(inFlight.raw)
     IN IF ~Truthy(message) \/ TypeOf(message) # "object"
        THEN Dropped("none")
        ELSE LET type == Get(message, "type")
                 payload == Get(message, "payload")
             IN CASE type = JStr("NEW_ORDER") -> HandleNewOrder(payload)
                  [] type = JStr("UPDATE_ORDER_STATUS") -> HandleUpdateOrderStatus(payload)
                  [] type = JStr("NEW_SALE") -> HandleNewSale(payload)
                  [] OTHER -> Dropped("none")
  /\ inFlight' = NoFrame
  /\ UNCHANGED <<readyState, now>>

\* the closing handshake of a connection starts
BeginClose(c) ==
  /\ running
  /\ inFlight = NoFrame
  /\ readyState[c] = "OPEN"
  /\ readyState' = [readyState EXCEPT ![c] = "CLOSING"]
  /\ UNCHANGED <<activeTickets, salesByDay, outbox, inFlight, last, applied, now, running>>

\* the connection is closed and leaves wss.clients; its record of sent
\* messages goes with it
FinishClose(c) ==
  /\ running
  /\ inFlight = NoFrame
  /\ readyState[c] = "CLOSING"
  /\ readyState' = [readyState EXCEPT ![c] = "CLOSED"]
  /\ outbox' = [outbox EXCEPT ![c] = <<>>]
  /\ UNCHANGED <<activeTickets, salesByDay, inFlight, last, applied, now, running>>

\* the wall clock advances
Tick ==
  /\ running
  /\ inFlight = NoFrame
  /\ now < MaxTime
  /\ now' = now + 1
  /\ UNCHANGED <<activeTickets, salesByDay, readyState, outbox, inFlight, last, applied, running>>

\* an "error" event of connection c (a protocol violation in what the client
\* sent): the socket has no "error" listener, so the event is thrown, nothing
\* catches it and the process ends
SocketError(c) ==
  /\ running
  /\ inFlight = NoFrame
  /\ readyState[c] = "OPEN"
  /\ running' = FALSE
  /\ last' = [type |-> "error", outcome |-> "threw"]
  /\ UNCHANGED <<activeTickets, salesByDay, readyState, outbox, inFlight, applied, now>>

\* wss.on("error"): an error of the listening socket is logged, and that is all
ServerError ==
  /\ running
  /\ inFlight = NoFrame
  /\ last' = [type |-> "error", outcome |-> "logged"]
  /\ UNCHANGED <<activeTickets, salesByDay, readyState, outbox, inFlight, applied, now, running>>

Next ==
  \/ \E c \in Conns : Connect(c) /\ UNCHANGED <<pages, order>>
  \/ \E c \in Conns, raw \in Frames : Deliver(c, raw) /\ UNCHANGED <<pages, order>>
  \/ HandleMessage /\ UNCHANGED <<pages, order>>
  \/ \E c \in Conns : BeginClose(c) /\ UNCHANGED <<pages, order>>
  \/ \E c \in Conns : FinishClose(c) /\ UNCHANGED <<pages, order>>
  \/ Tick /\ UNCHANGED <<pages, order>>
  \/ \E c \in Conns : SocketError(c) /\ UNCHANGED <<pages, order>>
  \/ ServerError /\ UNCHANGED <<pages, order>>

Spec == Init /\ [][Next]_vars

(***************************************************************************)
(* The relay under sales traffic: sales of several days and totals of      *)
(* every kind, next to a ticket that is created and completed.             *)
(***************************************************************************)
SaleVariants ==
  {JObj(SaleFields("s1", toISOString(0))),
   JObj(With(SaleFields("s2", toISOString(1)), "total", JNum(-3))),
   JObj(Without(Without(SaleFields("s3", ""), "total"), "createdAt")),
   JObj(With(SaleFields("s4", "yesterday"), "total", JStr("abc"))),
   JObj(With(SaleFields("s5", toISOString(MaxTime)), "total", JInf))}

SaleFrames ==
  {Envelope("NEW_SALE", p) : p \in SaleVariants}
    \cup {Envelope("NEW_SALE", JObj(Without(SaleFields("s1", toISOString(0)), "waiterName"))),
          Envelope("NEW_ORDER", JObj(TicketFields("t1"))),
          Envelope("UPDATE_ORDER_STATUS", JObj([id |-> JStr("t1"), status |-> JStr("done")])),
          Unparseable}

SaleNext ==
  \/ \E c \in Conns : Connect(c) /\ UNCHANGED <<pages, order>>
  \/ \E c \in Conns, raw \in SaleFrames : Deliver(c, raw) /\ UNCHANGED <<pages, order>>
  \/ HandleMessage /\ UNCHANGED <<pages, order>>
  \/ \E c \in Conns : BeginClose(c) /\ UNCHANGED <<pages, order>>
  \/ \E c \in Conns : FinishClose(c) /\ UNCHANGED <<pages, order>>
  \/ Tick /\ UNCHANGED <<pages, order>>
  \/ \E c \in Conns : SocketError(c) /\ UNCHANGED <<pages, order>>
  \/ ServerError /\ UNCHANGED <<pages, order>>

SaleSpec == Init /\ [][SaleNext]_vars

(***************************************************************************)
(* The relay under two producers that write the same ticket: the first     *)
(* connection creates t1 and starts it, every other connection sends t1    *)
(* revised, puts it back to new and completes it.                          *)
(***************************************************************************)
RaceFrames(c) ==
  IF c = 1
  THEN {Envelope("NEW_ORDER", JObj(TicketFields("t1"))),
        Envelope("UPDATE_ORDER_STATUS", JObj([id |-> JStr("t1"), status |-> JStr("in_progress")]))}
  ELSE {Envelope("NEW_ORDER", JObj(With(RevisedFields("t1"), "status", JStr("new")))),
        Envelope("UPDATE_ORDER_STATUS", JObj([id |-> JStr("t1"), status |-> JStr("new")])),
        Envelope("UPDATE_ORDER_STATUS", JObj([id |-> JStr("t1"), status |-> JStr("done")]))}

RaceNext ==
  \/ \E c \in Conns : Connect(c) /\ UNCHANGED <<pages, order>>
  \/ \E c \in Conns : \E raw \in RaceFrames(c) : Deliver(c, raw) /\ UNCHANGED <<pages, order>>
  \/ HandleMessage /\ UNCHANGED <<pages, order>>
  \/ \E c \in Conns : BeginClose(c) /\ UNCHANGED <<pages, order>>
  \/ \E c \in Conns : FinishClose(c) /\ UNCHANGED <<pages, order>>
  \/ Tick /\ UNCHANGED <<pages, order>>
  \/ \E c \in Conns : SocketError(c) /\ UNCHANGED <<pages, order>>
  \/ ServerError /\ UNCHANGED <<pages, order>>

RaceSpec == Init /\ [][RaceNext]_vars

(***************************************************************************)
(* Reading a step of the relay.                                            *)
(***************************************************************************)
\* a frame is being dispatched: the next step is the handler's
Handling == inFlight # NoFrame

HandlingType(type) == Handling /\ FrameType(inFlight.raw) = type

\* message.payload of the frame being dispatched
Payload == Get(safeParse(inFlight.raw), "payload")

\* the step accepts connection c
ConnectStep(c) == readyState[c] = "CONNECTING" /\ readyState'[c] = "OPEN"

\* the step sends message once to every open connection and nothing else
Broadcasts(message) ==
  \A c \in Conns :
    outbox'[c] = IF readyState[c] = "OPEN" THEN Append(outbox[c], message) ELSE outbox[c]

ActiveIds(m) == {m[i][1] : i \in 1..Len(m)}

Applied(type) == last = [type |-> type, outcome |-> "applied"]

WasDropped(type) == last = [type |-> type, outcome |-> "dropped"]

\* the last message sent to connection c
LastSent(c) == outbox[c][Len(outbox[c])]

(***************************************************************************)
(* C1.  No ticket of the active-ticket map has status done: every stored   *)
(* status is new or in_progress, whatever was received.                    *)
(***************************************************************************)
C1_NoDoneStored ==
  \A i \in 1..Len(activeTickets) : activeTickets[i][2].status \in {"new", "in_progress"}

\* the ticket sent with status done is stored, and a status update has acted on it
C1_Witness ==
  /\ Applied("UPDATE_ORDER_STATUS")
  /\ MapHas(activeTickets, "t2")
  /\ MapGet(activeTickets, "t2").status = "in_progress"

(***************************************************************************)
(* C2.  A NEW_ORDER whose payload normalizes to a well-formed ticket (one  *)
(* normalizeTicket returns, with a numeric receiptNo and items that are    *)
(* objects of finite quantity) leaves the ticket in the map under its id,  *)
(* and exactly one NEW_ORDER message carrying it is sent to every open     *)
(* connection, the sender among them.                                      *)
(***************************************************************************)
WellFormedTicket(payload, t) ==
  /\ ~normalizeTicketThrows(payload)
  /\ normalizeTicket(payload, t) # Rejected
  /\ normalizeTicket(payload, t).receiptNo.k = "number"
  /\ \A i \in 1..Len(Get(payload, "items").a) : Get(payload, "items").a[i].k = "object"
  /\ \A i \in 1..Len(normalizeTicket(payload, t).items) :
       normalizeTicket(payload, t).items[i].quantity.k = "number"

C2_NewOrderStoredAndBroadcast ==
  [][(HandlingType("NEW_ORDER") /\ WellFormedTicket(Payload, now)) =>
       LET ticket == normalizeTicket(Payload, now)
       IN /\ MapHas(activeTickets', ticket.id)
          /\ MapGet(activeTickets', ticket.id) = ticket
          /\ Broadcasts([type |-> "NEW_ORDER", payload |-> ticket])
          /\ readyState[inFlight.conn] = "OPEN"
          /\ Len(outbox'[inFlight.conn]) = Len(outbox[inFlight.conn]) + 1]_vars

\* two open connections have both just been sent the stored ticket
C2_Witness ==
  \E c, d \in Conns :
    /\ c # d
    /\ readyState[c] = "OPEN" /\ readyState[d] = "OPEN"
    /\ Applied("NEW_ORDER")
    /\ Len(outbox[c]) > 2 /\ Len(outbox[d]) > 2
    /\ LastSent(c).type = "NEW_ORDER"
    /\ LastSent(c) = LastSent(d)
    /\ MapHas(activeTickets, LastSent(c).payload.id)
    /\ MapGet(activeTickets, LastSent(c).payload.id) = LastSent(c).payload

(***************************************************************************)
(* C3.  An UPDATE_ORDER_STATUS naming an active ticket: done removes the   *)
(* ticket, new or in_progress sets the stored status, and in both cases    *)
(* {id, status} is sent to every open connection; the ORDER_SNAPSHOT of a  *)
(* later connection lists exactly the tickets then in the map, with their  *)
(* stored status.                                                          *)
(***************************************************************************)
ActiveUpdate ==
  /\ HandlingType("UPDATE_ORDER_STATUS")
  /\ Get(Payload, "id").k = "string"
  /\ MapHas(activeTickets, Get(Payload, "id").s)
  /\ Get(Payload, "status") \in {JStr("done"), JStr("new"), JStr("in_progress")}

C3_StatusUpdateApplied ==
  [][/\ ActiveUpdate =>
          LET id == Get(Payload, "id").s
              status == Get(Payload, "status").s
          IN /\ status = "done" => id \notin ActiveIds(activeTickets')
             /\ status # "done" =>
                  /\ id \in ActiveIds(activeTickets')
                  /\ MapGet(activeTickets', id).status = status
             /\ Broadcasts([type |-> "UPDATE_ORDER_STATUS",
                            payload |-> [id |-> id, status |-> status]])
     /\ \A c \in Conns :
          ConnectStep(c) =>
            LET snapshot == outbox'[c][1]
            IN /\ snapshot.type = "ORDER_SNAPSHOT"
               /\ {t.id : t \in {snapshot.payload.a[i] : i \in 1..Len(snapshot.payload.a)}}
                    = ActiveIds(activeTickets)
               /\ \A i \in 1..Len(snapshot.payload.a) :
                    snapshot.payload.a[i].status
                      = MapGet(activeTickets, snapshot.payload.a[i].id).status]_vars

\* a connection saw a ticket created and then completed, and the snapshot of a
\* connection accepted afterwards is empty
C3_Witness ==
  \E c, d \in Conns :
    /\ c # d
    /\ readyState[d] = "OPEN"
    /\ Len(outbox[d]) >= 1
    /\ outbox[d][1] = [type |-> "ORDER_SNAPSHOT", payload |-> JArr(<<>>)]
    /\ activeTickets = <<>>
    /\ \E i, j \in 1..Len(outbox[c]) :
         /\ i < j
         /\ outbox[c][i].type = "NEW_ORDER"
         /\ outbox[c][j] = [type |-> "UPDATE_ORDER_STATUS",
                            payload |-> [id |-> outbox[c][i].payload.id, status |-> "done"]]

(***************************************************************************)
(* C4.  An UPDATE_ORDER_STATUS whose payload is not an object, has no id,  *)
(* names an id that is not in the map, or carries a status other than new, *)
(* in_progress or done changes neither collection and sends nothing.       *)
(***************************************************************************)
InvalidUpdate ==
  /\ HandlingType("UPDATE_ORDER_STATUS")
  /\ \/ Payload.k # "object"
     \/ ~Truthy(Get(Payload, "id"))
     \/ ToStr(Get(Payload, "id")) \notin ActiveIds(activeTickets)
     \/ Get(Payload, "status") \notin {JStr("done"), JStr("new"), JStr("in_progress")}

C4_InvalidUpdateIsNoOp ==
  [][InvalidUpdate => UNCHANGED <<activeTickets, salesByDay, outbox>>]_vars

\* a status update has been dropped while both collections held records and a
\* client was listening
C4_Witness ==
  /\ WasDropped("UPDATE_ORDER_STATUS")
  /\ activeTickets # <<>>
  /\ salesByDay # <<>>
  /\ \E c \in Conns : readyState[c] = "OPEN" /\ Len(outbox[c]) > 2

(***************************************************************************)
(* C5.  Accepting a connection sends to that client, and to no other, an   *)
(* ORDER_SNAPSHOT and then a SALES_SNAPSHOT, and no frame of a connection  *)
(* is dispatched before both have been sent to it.                         *)
(***************************************************************************)
SnapshotsFirst(log) ==
  /\ Len(log) >= 2
  /\ log[1].type = "ORDER_SNAPSHOT"
  /\ log[2].type = "SALES_SNAPSHOT"

C5_SnapshotsOnConnect ==
  [][/\ \A c \in Conns :
          ConnectStep(c) =>
            /\ Len(outbox'[c]) = 2
            /\ SnapshotsFirst(outbox'[c])
            /\ \A d \in Conns \ {c} : outbox'[d] = outbox[d]
     /\ inFlight' # NoFrame => SnapshotsFirst(outbox'[inFlight'.conn])]_vars

\* a second connection has only its two snapshots, next to a first one that was
\* sent broadcasts and no further snapshot, and its first frame is being dispatched
C5_Witness ==
  \E c, d \in Conns :
    /\ c # d
    /\ readyState[c] = "OPEN" /\ readyState[d] = "OPEN"
    /\ Len(outbox[c]) = 2 /\ SnapshotsFirst(outbox[c])
    /\ Len(outbox[d]) = 3 /\ outbox[d][3].type = "NEW_ORDER"
    /\ inFlight # NoFrame /\ inFlight.conn = c

(***************************************************************************)
(* C6.  The ORDER_SNAPSHOT sent on connection is the map's tickets, each   *)
(* once with its stored status, in insertion order: across every step the  *)
(* ids that stay keep their relative order (a replaced or updated ticket   *)
(* keeps its position) and an id that enters, for the first time or after  *)
(* having been completed, goes to the end.                                 *)
(***************************************************************************)
Range(seq) == {seq[i] : i \in 1..Len(seq)}

NoDup(seq) == \A i, j \in 1..Len(seq) : seq[i] = seq[j] => i = j

\* the entries of seq that are in set, in their order
RECURSIVE Restrict(_, _)
Restrict(seq, set) ==
  IF seq = <<>> THEN <<>>
  ELSE IF Head(seq) \in set THEN <<Head(seq)>> \o Restrict(Tail(seq), set)
  ELSE Restrict(Tail(seq), set)

C6_SnapshotInInsertionOrder ==
  [][/\ \A c \in Conns :
          ConnectStep(c) =>
            outbox'[c][1] = [type |-> "ORDER_SNAPSHOT",
                             payload |-> JArr(WireAll(MapValues(activeTickets)))]
     /\ LET old == MapKeys(activeTickets)
            new == MapKeys(activeTickets')
        IN /\ NoDup(new)
           /\ Restrict(new, Range(old)) = Restrict(old, Range(new))
           /\ \A i, j \in 1..Len(new) :
                (i < j /\ new[i] \notin Range(old)) => new[j] \notin Range(old)]_vars

\* a connection saw t1 created, t2 created and t1 sent again; the snapshot of a
\* connection accepted afterwards lists the revised t1 first and t2 second
C6_Witness ==
  \E c, d \in Conns :
    /\ c # d
    /\ Len(outbox[c]) = 5
    /\ \A i \in 3..5 : outbox[c][i].type = "NEW_ORDER"
    /\ <<outbox[c][3].payload.id, outbox[c][4].payload.id, outbox[c][5].payload.id>>
         = <<"t1", "t2", "t1">>
    /\ Len(outbox[d]) >= 1
    /\ outbox[d][1].type = "ORDER_SNAPSHOT"
    /\ outbox[d][1].payload.a = <<outbox[c][5].payload, outbox[c][4].payload>>
    /\ outbox[c][5].payload # outbox[c][3].payload

(***************************************************************************)
(* C7.  With NEW_ORDER ids pairwise distinct, the active ids are those of  *)
(* the tickets sent with a status other than done, minus those completed   *)
(* by a done update: a valid NEW_ORDER of a fresh id adds the id unless it *)
(* was sent with status done, a done update removes the id, and a new or   *)
(* in_progress update leaves the set as it is.                             *)
(***************************************************************************)
C7_ActiveSetIsSentNotDoneMinusCompleted ==
  [][/\ (/\ HandlingType("NEW_ORDER")
         /\ WellFormedTicket(Payload, now)
         /\ normalizeTicket(Payload, now).id \notin ActiveIds(activeTickets)) =>
          ActiveIds(activeTickets') =
            IF Get(Payload, "status") = JStr("done")
            THEN ActiveIds(activeTickets)
            ELSE ActiveIds(activeTickets) \cup {normalizeTicket(Payload, now).id}
     /\ ActiveUpdate =>
          ActiveIds(activeTickets') =
            IF Get(Payload, "status") = JStr("done")
            THEN ActiveIds(activeTickets) \ {Get(Payload, "id").s}
            ELSE ActiveIds(activeTickets)]_vars

(***************************************************************************)
(* C8.  A valid NEW_ORDER whose id is already active creates no second     *)
(* entry: the map keeps one ticket per id and its size, and the stored     *)
(* ticket equals, field by field, the normalized value of the new payload. *)
(***************************************************************************)
C8_ResendReplaces ==
  [][(/\ HandlingType("NEW_ORDER")
      /\ WellFormedTicket(Payload, now)
      /\ normalizeTicket(Payload, now).id \in ActiveIds(activeTickets)) =>
       LET ticket == normalizeTicket(Payload, now)
       IN /\ Len(activeTickets') = Len(activeTickets)
          /\ NoDup(MapKeys(activeTickets'))
          /\ \A i \in 1..Len(activeTickets') :
               activeTickets'[i][2].id = ticket.id =>
                 /\ activeTickets'[i][2].note = ticket.note
                 /\ activeTickets'[i][2].items = ticket.items
                 /\ activeTickets'[i][2].receiptNo = ticket.receiptNo
                 /\ activeTickets'[i][2].createdAt = ticket.createdAt
                 /\ activeTickets'[i][2].status = ticket.status]_vars

\* t1 was sent and then sent again revised; the map holds the revised ticket alone
C8_Witness ==
  /\ Applied("NEW_ORDER")
  /\ Len(activeTickets) = 1
  /\ \E c \in Conns :
       /\ Len(outbox[c]) = 4
       /\ outbox[c][3].type = "NEW_ORDER" /\ outbox[c][4].type = "NEW_ORDER"
       /\ outbox[c][3].payload.id = "t1" /\ outbox[c][4].payload.id = "t1"
       /\ outbox[c][3].payload.note = JNull /\ outbox[c][4].payload.note = JStr("no ice")
       /\ outbox[c][3].payload.receiptNo # outbox[c][4].payload.receiptNo
       /\ outbox[c][3].payload.items # outbox[c][4].payload.items
       /\ MapGet(activeTickets, "t1") = outbox[c][4].payload

(***************************************************************************)
(* C9.  A frame that is not JSON, parses to a non-object, or is an object  *)
(* with a missing or unrecognised type changes neither collection, sends   *)
(* nothing, leaves every connection as it is and the relay running and     *)
(* ready for the next frame.                                               *)
(***************************************************************************)
C9_MalformedFrameIsNoOp ==
  [][HandlingType("none") =>
       /\ UNCHANGED <<activeTickets, salesByDay, outbox, readyState>>
       /\ running'
       /\ inFlight' = NoFrame]_vars

\* after a malformed frame was dropped, with records in both collections, a
\* NEW_ORDER from a client is being dispatched
C9_Witness ==
  /\ WasDropped("none")
  /\ activeTickets # <<>>
  /\ salesByDay # <<>>
  /\ HandlingType("NEW_ORDER")

(***************************************************************************)
(* C10.  A NEW_ORDER or NEW_SALE whose payload is not a well-formed record *)
(* (not an object; missing or empty id; missing receiptNo; items not an    *)
(* array or holding an entry that is not an object; missing or empty       *)
(* waiterName) changes neither collection, sends nothing, and leaves the   *)
(* relay running.                                                          *)
(***************************************************************************)
IllFormedTicket(payload) ==
  \/ payload.k # "object"
  \/ ~Truthy(Get(payload, "id"))
  \/ ~Truthy(Get(payload, "receiptNo"))
  \/ Get(payload, "items").k # "array"
  \/ \E i \in 1..Len(Get(payload, "items").a) : Get(payload, "items").a[i].k # "object"

IllFormedSale(payload) ==
  \/ payload.k # "object"
  \/ ~Truthy(Get(payload, "id"))
  \/ ~Truthy(Get(payload, "receiptNo"))
  \/ ~Truthy(Get(payload, "waiterName"))

C10_InvalidPayloadIsNoOp ==
  [][(\/ HandlingType("NEW_ORDER") /\ IllFormedTicket(Payload)
      \/ HandlingType("NEW_SALE") /\ IllFormedSale(Payload)) =>
       /\ UNCHANGED <<activeTickets, salesByDay, outbox>>
       /\ running']_vars

(***************************************************************************)
(* C11.  A step that applies a mutation (an accepted NEW_ORDER,            *)
(* UPDATE_ORDER_STATUS or NEW_SALE) sends one and the same message of that *)
(* type to every connection that is open, the originator among them, and   *)
(* nothing to a connection that is not open; a closing connection among    *)
(* the clients raises no error: the relay keeps running.                   *)
(***************************************************************************)
C11_OneMessagePerOpenConnection ==
  [][applied' = applied + 1 =>
       LET origin == inFlight.conn
           message == outbox'[origin][Len(outbox'[origin])]
       IN /\ readyState[origin] = "OPEN"
          /\ message.type = FrameType(inFlight.raw)
          /\ \A c \in Conns :
               outbox'[c] = IF readyState[c] = "OPEN"
                            THEN Append(outbox[c], message)
                            ELSE outbox[c]
          /\ running']_vars

\* the first connection was closing when a mutation was broadcast: it holds its
\* two snapshots and nothing else, and the second connection was sent the message
C11_Witness ==
  /\ readyState[1] = "CLOSING" /\ Len(outbox[1]) = 2
  /\ readyState[2] = "OPEN" /\ Len(outbox[2]) = 3
  /\ last.outcome = "applied"
  /\ LastSent(2).type = last.type
  /\ running

(***************************************************************************)
(* Reading the sales collection.                                           *)
(***************************************************************************)
\* the list recorded under a day key, empty when the key is absent
Bucket(m, day) == IF MapHas(m, day) THEN MapGet(m, day) ELSE <<>>

\* the local calendar date of a createdAt that is a timestamp, today's date
\* when it is absent or is not one
DateOf(createdAt, t) ==
  IF createdAt.k = "string" /\ \E u \in Instants : toISOString(u) = createdAt.s
  THEN DayKey(DayOf(CHOOSE u \in Instants : toISOString(u) = createdAt.s))
  ELSE DayKey(DayOf(t))

AcceptedSale == HandlingType("NEW_SALE") /\ ~IllFormedSale(Payload)

IsPrefix(s, t) == Len(s) <= Len(t) /\ SubSeq(t, 1, Len(s)) = s

\* the ids of the sales recorded under a day key
SaleIds(m, day) == {Bucket(m, day)[i].id : i \in 1..Len(Bucket(m, day))}

(***************************************************************************)
(* C12.  An accepted NEW_SALE is appended to the bucket of the local       *)
(* calendar date of its createdAt, or of the current date when createdAt   *)
(* is absent or unparseable, and to no other bucket; what the bucket held  *)
(* stays in front of it; and the SALES_SNAPSHOT of a connection accepted   *)
(* on a date carries that date's bucket.                                   *)
(***************************************************************************)
C12_SaleInOneDayBucket ==
  [][/\ AcceptedSale =>
          LET day == DateOf(Get(Payload, "createdAt"), now)
              old == Bucket(salesByDay, day)
              new == Bucket(salesByDay', day)
          IN /\ Len(new) = Len(old) + 1
             /\ IsPrefix(old, new)
             /\ new[Len(new)].id = ToStr(Get(Payload, "id"))
             /\ \A i \in 1..Len(salesByDay') :
                  salesByDay'[i][1] # day =>
                    salesByDay'[i][2] = Bucket(salesByDay, salesByDay'[i][1])
     /\ \A c \in Conns :
          ConnectStep(c) =>
            outbox'[c][2].payload.sales = WireAll(Bucket(salesByDay, DayKey(DayOf(now))))]_vars

\* on the second day the bucket of the first day holds two sales of different
\* instants of that day, a connection accepted on the first day was sent both
\* in its snapshot, and a sale with an unparseable createdAt is under the
\* second day
C12_Witness ==
  /\ DayOf(now) = 1
  /\ SaleIds(salesByDay, DayKey(0)) = {"s1", "s2"}
  /\ Len(Bucket(salesByDay, DayKey(0))) = 2
  /\ SaleIds(salesByDay, DayKey(1)) = {"s4"}
  /\ \E c \in Conns :
       /\ Len(outbox[c]) >= 2
       /\ outbox[c][2].payload = [day |-> DayKey(0),
                                  sales |-> WireAll(Bucket(salesByDay, DayKey(0)))]

(***************************************************************************)
(* C13.  The SALES_SNAPSHOT sent on connection carries the day key of the  *)
(* current date and exactly the sales recorded under that key, in the      *)
(* order they were recorded (an empty list when there are none); a sale    *)
(* recorded under another day only is not in it.                           *)
(***************************************************************************)
C13_SnapshotIsTodaysBucket ==
  [][\A c \in Conns :
       ConnectStep(c) =>
         LET today == DayKey(DayOf(now))
             snapshot == outbox'[c][2]
         IN /\ snapshot.type = "SALES_SNAPSHOT"
            /\ snapshot.payload.day = today
            /\ Len(snapshot.payload.sales) = Len(Bucket(salesByDay, today))
            /\ \A i \in 1..Len(snapshot.payload.sales) :
                 snapshot.payload.sales[i] = Wire(Bucket(salesByDay, today)[i])
            /\ \A k \in 1..Len(salesByDay) :
                 \A j \in 1..Len(salesByDay[k][2]) :
                   Wire(salesByDay[k][2][j]) \in Range(snapshot.payload.sales) =>
                     salesByDay[k][2][j] \in Range(Bucket(salesByDay, today))]_vars

\* a connection accepted on the second day was sent the two sales of that day in
\* the order they were recorded, while the first day's bucket holds another sale
C13_Witness ==
  \E c \in Conns :
    /\ Len(outbox[c]) = 2
    /\ outbox[c][2].payload.day = DayKey(1)
    /\ Len(outbox[c][2].payload.sales) = 2
    /\ outbox[c][2].payload.sales[1].id = "s3"
    /\ outbox[c][2].payload.sales[2].id = "s5"
    /\ SaleIds(salesByDay, DayKey(0)) = {"s1"}
    /\ MapKeys(salesByDay) = <<DayKey(0), DayKey(1)>>

(***************************************************************************)
(* C14.  Sale records are append-only: across every step of the relay      *)
(* (a sale, a ticket operation, a dropped message, a connect, a            *)
(* disconnect, a tick of the clock) every day key stays where it is and    *)
(* the list under it is a prefix of the list under it afterwards.          *)
(***************************************************************************)
C14_SalesAppendOnly ==
  [][/\ Len(salesByDay') >= Len(salesByDay)
     /\ \A k \in 1..Len(salesByDay) :
          /\ salesByDay'[k][1] = salesByDay[k][1]
          /\ IsPrefix(salesByDay[k][2], salesByDay'[k][2])]_vars

\* a day holds two sales, recorded one after the other before a ticket was
\* created, a connection was closed and the date changed
C14_Witness ==
  /\ Applied("NEW_ORDER")
  /\ DayOf(now) = 1
  /\ activeTickets # <<>>
  /\ \E c \in Conns : readyState[c] = "CLOSED"
  /\ \E d \in Conns :
       /\ Len(outbox[d]) = 5
       /\ outbox[d][3].type = "NEW_SALE" /\ outbox[d][4].type = "NEW_SALE"
       /\ outbox[d][5].type = "NEW_ORDER"
       /\ Bucket(salesByDay, DayKey(0)) = <<outbox[d][3].payload, outbox[d][4].payload>>

(***************************************************************************)
(* C15.  Every item of every stored ticket and of every NEW_ORDER message  *)
(* sent has a quantity that is a number >= 1 and a non-empty name; the     *)
(* ticket stored for a payload whose items are objects holds, in their     *)
(* order, the items of non-empty name, with quantity 1 where the quantity  *)
(* received was 0, negative or not numeric.                                *)
(***************************************************************************)
\* q >= 1 as JavaScript evaluates it
AtLeast1(q) == q.k = "Infinity" \/ (q.k = "number" /\ q.n >= 1)

ItemsInRange(items) ==
  \A i \in 1..Len(items) : AtLeast1(items[i].quantity) /\ items[i].name # ""

\* the quantity the claim gives an item received with quantity q
ClampedQuantity(q) ==
  IF ToNum(q).k = "number" /\ ToNum(q).n >= 1 THEN ToNum(q) ELSE
  IF ToNum(q).k = "Infinity" THEN JInf ELSE JNum(1)

NamedItems(raw) == SelectSeq(raw, LAMBDA item : Get(item, "name") # JStr(""))

C15_ItemsClampedAndNamed ==
  [][/\ \A i \in 1..Len(activeTickets') : ItemsInRange(activeTickets'[i][2].items)
     /\ \A c \in Conns :
          \A i \in 1..Len(outbox'[c]) :
            outbox'[c][i].type = "NEW_ORDER" => ItemsInRange(outbox'[c][i].payload.items)
     /\ (/\ HandlingType("NEW_ORDER")
         /\ ~IllFormedTicket(Payload)) =>
          LET raw == NamedItems(Get(Payload, "items").a)
              stored == MapGet(activeTickets', ToStr(Get(Payload, "id"))).items
          IN /\ Len(stored) = Len(raw)
             /\ \A i \in 1..Len(raw) :
                  /\ stored[i].name = ToStr(Get(raw[i], "name"))
                  /\ stored[i].id = ToStr(Get(raw[i], "id"))
                  /\ stored[i].quantity = ClampedQuantity(Get(raw[i], "quantity"))]_vars

(***************************************************************************)
(* C16.  Every sale the relay holds and every NEW_SALE message it sends    *)
(* has a total that is a finite number >= 0: a total received negative,    *)
(* missing, not numeric or not finite is recorded as 0, and a total that   *)
(* is a number >= 0 is recorded as it is.                                  *)
(***************************************************************************)
FiniteNonNegative(total) == total.k = "number" /\ total.n >= 0

C16_TotalFiniteNonNegative ==
  [][/\ \A k \in 1..Len(salesByDay') :
          \A j \in 1..Len(salesByDay'[k][2]) : FiniteNonNegative(salesByDay'[k][2][j].total)
     /\ \A c \in Conns :
          \A i \in 1..Len(outbox'[c]) :
            outbox'[c][i].type = "NEW_SALE" => FiniteNonNegative(outbox'[c][i].payload.total)
     /\ AcceptedSale =>
          LET day == DateOf(Get(Payload, "createdAt"), now)
              recorded == Bucket(salesByDay', day)[Len(Bucket(salesByDay', day))]
              total == Get(Payload, "total")
          IN recorded.total = IF FiniteNonNegative(total) THEN total ELSE JNum(0)]_vars

\* the relay holds the sale received with total 12 as 12, and the sales
\* received with total -3 and with a total that is not finite as 0
C16_Witness ==
  LET held == UNION {Range(salesByDay[k][2]) : k \in 1..Len(salesByDay)}
  IN \E a, b, c \in held :
       /\ a.id = "s1" /\ a.total = JNum(12)
       /\ b.id = "s2" /\ b.total = JNum(0)
       /\ c.id = "s5" /\ c.total = JNum(0)

(***************************************************************************)
(* C17.  An accepted UPDATE_ORDER_STATUS to new or in_progress changes the *)
(* status of the named ticket and nothing else: its id, receiptNo,         *)
(* createdAt, note and items, its position, every other ticket and the     *)
(* sales collection are as before; an accepted update to done leaves every *)
(* other ticket, in its order, and the sales collection as before.         *)
(***************************************************************************)
C17_UpdateChangesStatusOnly ==
  [][ActiveUpdate =>
       LET id == Get(Payload, "id").s
           status == Get(Payload, "status").s
       IN /\ salesByDay' = salesByDay
          /\ status # "done" =>
               /\ Len(activeTickets') = Len(activeTickets)
               /\ \A i \in 1..Len(activeTickets) :
                    LET old == activeTickets[i][2]
                        new == activeTickets'[i][2]
                    IN /\ activeTickets'[i][1] = activeTickets[i][1]
                       /\ activeTickets[i][1] # id => new = old
                       /\ activeTickets[i][1] = id =>
                            /\ DOMAIN new = DOMAIN old
                            /\ new.status = status
                            /\ \A field \in DOMAIN old \ {"status"} : new[field] = old[field]
          /\ status = "done" =>
               /\ MapKeys(activeTickets') = Restrict(MapKeys(activeTickets),
                                                     Range(MapKeys(activeTickets)) \ {id})
               /\ \A i \in 1..Len(activeTickets') :
                    activeTickets'[i][2] = MapGet(activeTickets, activeTickets'[i][1])]_vars

\* the ticket received with a note, four named items and status in_progress has
\* been put back to new by a status update, in front of a second ticket
C17_Witness ==
  /\ Applied("UPDATE_ORDER_STATUS")
  /\ MapKeys(activeTickets) = <<"t1", "t2">>
  /\ MapGet(activeTickets, "t1").status = "new"
  /\ MapGet(activeTickets, "t1").note = JStr("no ice")
  /\ Len(MapGet(activeTickets, "t1").items) = 4

(***************************************************************************)
(* C18.  Messages take effect one at a time in the order they arrive: a    *)
(* frame that is dispatched is handled to the end before anything else     *)
(* happens, and whichever producers wrote a ticket id, in whichever order, *)
(* the stored ticket is the one the latest write determines. Every open    *)
(* connection is sent the writes in arrival order, so the latest message   *)
(* about an id in its log fixes what the map holds for that id: a          *)
(* NEW_ORDER the ticket itself, an update to new or in_progress its        *)
(* status, an update to done its absence, a snapshot its presence.         *)
(***************************************************************************)
\* message says something about ticket id
About(message, id) ==
  \/ message.type = "ORDER_SNAPSHOT"
  \/ message.type \in {"NEW_ORDER", "UPDATE_ORDER_STATUS"} /\ message.payload.id = id

\* what message leaves in map m for ticket id
Determines(message, id, m) ==
  CASE message.type = "NEW_ORDER" -> MapHas(m, id) /\ Wire(MapGet(m, id)) = message.payload
    [] message.type = "UPDATE_ORDER_STATUS" ->
         IF message.payload.status = "done"
         THEN ~MapHas(m, id)
         ELSE MapHas(m, id) /\ MapGet(m, id).status = message.payload.status
    [] OTHER ->
         IF \E i \in 1..Len(message.payload.a) : message.payload.a[i].id = id
         THEN MapHas(m, id) /\ Wire(MapGet(m, id)) \in Range(message.payload.a)
         ELSE ~MapHas(m, id)

LastWriteWins ==
  \A c \in Conns :
    readyState[c] = "OPEN" =>
      \A id \in {"t1", "t2"} :
        \A i \in 1..Len(outbox[c]) :
          (/\ About(outbox[c][i], id)
           /\ \A j \in (i + 1)..Len(outbox[c]) : ~About(outbox[c][j], id))
            => Determines(outbox[c][i], id, activeTickets)

C18_ArrivalOrderLastWriteWins ==
  [][/\ LastWriteWins'
     /\ Handling =>
          /\ inFlight' = NoFrame
          /\ last'.type = FrameType(inFlight.raw)
          /\ \A c \in Conns : IsPrefix(outbox[c], outbox'[c])]_vars

\* the first producer created t1, the second sent it revised, the first set it
\* to in_progress: the map holds the second producer's ticket with the first
\* producer's status
C18_Witness ==
  /\ readyState[1] = "OPEN" /\ readyState[2] = "OPEN"
  /\ Len(outbox[1]) = 5
  /\ outbox[1][3].type = "NEW_ORDER" /\ outbox[1][3].payload.note = JNull
  /\ outbox[1][4].type = "NEW_ORDER" /\ outbox[1][4].payload.note = JStr("no ice")
  /\ outbox[1][5] = [type |-> "UPDATE_ORDER_STATUS",
                     payload |-> [id |-> "t1", status |-> "in_progress"]]
  /\ MapGet(activeTickets, "t1") = [outbox[1][4].payload EXCEPT !.status = "in_progress"]

(***************************************************************************)
(* C19.  A fault of one client connection (an error event of its socket,   *)
(* its disconnection, or a message of its that fails while it is handled)  *)
(* changes neither collection, closes no other connection and leaves the   *)
(* relay running, so that the other connections go on receiving            *)
(* broadcasts.                                                             *)
(***************************************************************************)
\* the step is the error event of a socket
SocketErrorStep == last # last' /\ last' = [type |-> "error", outcome |-> "threw"]

\* the step closes, or starts closing, connection c
DisconnectStep(c) ==
  \/ readyState[c] = "OPEN" /\ readyState'[c] = "CLOSING"
  \/ readyState[c] = "CLOSING" /\ readyState'[c] = "CLOSED"

\* the step handles a message whose handling fails
FailingMessageStep == HandlingType("NEW_ORDER") /\ normalizeTicketThrows(Payload)

C19_ClientFaultIsContained ==
  [][(\/ SocketErrorStep
      \/ \E c \in Conns : DisconnectStep(c)
      \/ FailingMessageStep) =>
       /\ UNCHANGED <<activeTickets, salesByDay>>
       /\ \A d \in Conns :
            (readyState[d] = "OPEN" /\ ~DisconnectStep(d)) => readyState'[d] = "OPEN"
       /\ running']_vars

(***************************************************************************)
(* C20.  When the listening socket reports an error the relay logs it and  *)
(* the process ends: from then on the relay is stopped and serves no       *)
(* connection and no message.                                              *)
(***************************************************************************)
\* the step is the handler of the server's error event
ServerErrorStep == last # last' /\ last' = [type |-> "error", outcome |-> "logged"]

C20_ServerErrorStopsRelay ==
  [][ServerErrorStep => ~running']_vars

(***************************************************************************)
(* C21.  The ticket stored and broadcast for an accepted NEW_ORDER carries *)
(* the createdAt of the payload when that is a valid timestamp, and the    *)
(* instant of receipt, assigned by the relay, when it is absent or is not  *)
(* a valid timestamp.                                                      *)
(***************************************************************************)
ValidTimestamp(v) == v.k = "string" /\ \E t \in Instants : toISOString(t) = v.s

AcceptedTicket ==
  /\ HandlingType("NEW_ORDER")
  /\ ~normalizeTicketThrows(Payload)
  /\ normalizeTicket(Payload, now) # Rejected

C21_CreatedAtKeptOrAssigned ==
  [][AcceptedTicket =>
       LET id == ToStr(Get(Payload, "id"))
           createdAt == Get(Payload, "createdAt")
           expected == IF ValidTimestamp(createdAt) THEN createdAt.s ELSE toISOString(now)
       IN /\ MapGet(activeTickets', id).createdAt = expected
          /\ \A c \in Conns :
               readyState[c] = "OPEN" =>
                 outbox'[c][Len(outbox'[c])].payload.createdAt = expected]_vars

(***************************************************************************)
(* C22.  No two sale records the relay holds, in one day bucket or in two, *)
(* have the same id, whatever NEW_SALE messages were received, a sale      *)
(* sent again included.                                                    *)
(***************************************************************************)
C22_SaleIdsUnique ==
  \A k1, k2 \in 1..Len(salesByDay) :
    \A j1 \in 1..Len(salesByDay[k1][2]) :
      \A j2 \in 1..Len(salesByDay[k2][2]) :
        salesByDay[k1][2][j1].id = salesByDay[k2][2][j2].id => (k1 = k2 /\ j1 = j2)

(***************************************************************************)
(* C24.  Handling a message is one step: once a frame is dispatched, the   *)
(* next thing that happens is the end of its handler, with no connection   *)
(* event, no other frame and no tick in between; a step that changes a     *)
(* collection is that handler's and sends the broadcast in the same step,  *)
(* so no snapshot is taken between a mutation and its broadcast; and any   *)
(* two open connections have been sent the broadcasts in one and the same  *)
(* order: the log of the one accepted later is the end of the other's.     *)
(***************************************************************************)
\* the broadcasts sent to a connection, after its two snapshots
BroadcastsTo(c) == SubSeq(outbox[c], 3, Len(outbox[c]))

IsSuffix(s, t) == Len(s) <= Len(t) /\ SubSeq(t, Len(t) - Len(s) + 1, Len(t)) = s

SameBroadcastOrder ==
  \A c, d \in Conns :
    (readyState[c] = "OPEN" /\ readyState[d] = "OPEN" /\ c < d) =>
      IsSuffix(BroadcastsTo(d), BroadcastsTo(c))

C24_HandlingIsAtomic ==
  [][/\ Handling =>
          /\ inFlight' = NoFrame
          /\ readyState' = readyState
          /\ now' = now
     /\ (activeTickets' # activeTickets \/ salesByDay' # salesByDay \/ applied' # applied) =>
          /\ Handling
          /\ applied' = applied + 1
          /\ \A c \in Conns :
               readyState[c] = "OPEN" => Len(outbox'[c]) = Len(outbox[c]) + 1
     /\ (\E c \in Conns : Len(outbox'[c]) > Len(outbox[c]) /\ ~ConnectStep(c)) =>
          applied' = applied + 1
     /\ SameBroadcastOrder']_vars

\* the second connection was accepted after the first mutation, which its
\* snapshot holds, and both connections were then sent the same two broadcasts
\* in the same order
C24_Witness ==
  /\ readyState[1] = "OPEN" /\ readyState[2] = "OPEN"
  /\ Len(outbox[1]) = 5 /\ Len(outbox[2]) = 4
  /\ outbox[1][3].type = "NEW_ORDER"
  /\ outbox[2][1].payload.a = <<outbox[1][3].payload>>
  /\ outbox[1][4] # outbox[1][5]
  /\ <<outbox[2][3], outbox[2][4]>> = <<outbox[1][4], outbox[1][5]>>

(***************************************************************************)
(* C25.  No gap and no overlap between a connection's snapshots and its    *)
(* broadcasts.  For every open connection, starting from the tickets of    *)
(* its ORDER_SNAPSHOT and applying the broadcasts sent to it afterwards,   *)
(* each once and in order, gives exactly the relay's active tickets; and   *)
(* the sales of its SALES_SNAPSHOT followed by the sales broadcast to it   *)
(* afterwards for the snapshot's day are exactly the relay's list for that *)
(* day.  (A mutation missing from both would leave the replay short, one   *)
(* present in both would show twice in the sales or undo a later change    *)
(* of the tickets.)  Every sale accepted here carries a timestamp.         *)
(***************************************************************************)
\* the ticket list after one broadcast
ApplyBroadcast(list, m) ==
  IF m.type = "NEW_ORDER"
  THEN IF \E i \in 1..Len(list) : list[i].id = m.payload.id
       THEN [i \in 1..Len(list) |-> IF list[i].id = m.payload.id THEN m.payload ELSE list[i]]
       ELSE Append(list, m.payload)
  ELSE IF m.type = "UPDATE_ORDER_STATUS"
  THEN IF m.payload.status = "done"
       THEN SelectSeq(list, LAMBDA t : t.id # m.payload.id)
       ELSE [i \in 1..Len(list) |->
               IF list[i].id = m.payload.id
               THEN [list[i] EXCEPT !.status = m.payload.status] ELSE list[i]]
  ELSE list

RECURSIVE Replay(_, _)
Replay(list, log) ==
  IF log = <<>> THEN list ELSE Replay(ApplyBroadcast(list, Head(log)), Tail(log))

\* the sales broadcast in a log for a day
RECURSIVE SalesFor(_, _)
SalesFor(day, log) ==
  IF log = <<>> THEN <<>>
  ELSE LET m == Head(log)
       IN (IF m.type = "NEW_SALE" /\ DateOf(JStr(m.payload.createdAt), now) = day
           THEN <<m.payload>> ELSE <<>>) \o SalesFor(day, Tail(log))

C25_SnapshotThenBroadcastsIsState ==
  \A c \in Conns :
    readyState[c] = "OPEN" =>
      /\ Replay(outbox[c][1].payload.a, BroadcastsTo(c))
           = [i \in 1..Len(activeTickets) |-> Wire(activeTickets[i][2])]
      /\ outbox[c][2].payload.sales \o SalesFor(outbox[c][2].payload.day, BroadcastsTo(c))
           = WireAll(Bucket(salesByDay, outbox[c][2].payload.day))

\* the second connection's snapshot held a ticket; the ticket was then
\* completed and a sale recorded, and both were broadcast to it
C25_Witness ==
  /\ readyState[1] = "OPEN" /\ readyState[2] = "OPEN"
  /\ Len(outbox[2]) = 4
  /\ Len(outbox[2][1].payload.a) = 1
  /\ outbox[2][3].type = "UPDATE_ORDER_STATUS" /\ outbox[2][3].payload.status = "done"
  /\ outbox[2][4].type = "NEW_SALE"
  /\ outbox[2][2].payload.day = DayKey(0)
  /\ activeTickets = <<>>
  /\ Len(Bucket(salesByDay, DayKey(0))) = 1

(***************************************************************************)
(* Order creation (app/api/orders/route.ts): the payment step of POST.     *)
(* A number of the request body is held in thousandths of the currency     *)
(* unit, so that amount * 100 and Math.round are computed on integers.     *)
(***************************************************************************)
\* payments offered with one order
MaxPayments == 3

\* Math.max(0, v)
MathMax0(v) ==
  CASE v.k = "NaN" -> JNaN
    [] v.k = "Infinity" -> JInf
    [] OTHER -> JNum(IF v.n > 0 THEN v.n ELSE 0)

\* Math.min(a, b)
MathMin(a, b) ==
  CASE a.k = "NaN" \/ b.k = "NaN" -> JNaN
    [] a.k = "Infinity" -> b
    [] b.k = "Infinity" -> a
    [] OTHER -> JNum(IF a.n < b.n THEN a.n ELSE b.n)

\* a - b for a b that is not Infinity
Minus(a, b) ==
  CASE a.k = "NaN" \/ b.k = "NaN" -> JNaN
    [] a.k = "Infinity" -> JInf
    [] OTHER -> JNum(a.n - b.n)

\* v > 0
Positive(v) == v.k = "Infinity" \/ (v.k = "number" /\ v.n > 0)

\* v <= 0
NotPositive(v) == v.k = "number" /\ v.n <= 0

\* Math.round(amount * 100): the nearest integer, a half rounded up
RoundCents(amount) ==
  LET x == ToNum(amount)
  IN IF x.k = "number" THEN JNum((x.n + 5) \div 10) ELSE x

\* toCents(amount)
toCents(amount) == MathMax0(RoundCents(amount))

\* mapPaymentMethod(method)
mapPaymentMethod(method) == IF method = JStr("cash") THEN "CASH" ELSE "CARD"

\* the .map() callback over body.payments, with the closure variable
\* remaining threaded through: the payments before the filter, and remaining
\* after the last one
RECURSIVE applyPayments(_, _)
applyPayments(remaining, offered) ==
  IF offered = <<>>
  THEN [remaining |-> remaining, payments |-> <<>>]
  ELSE LET payment == Head(offered)
           amountCents == MathMax0(toCents(Get(payment, "amount")))
           appliedCents == MathMin(remaining, amountCents)
           rest == applyPayments(Minus(remaining, appliedCents), Tail(offered))
       IN [remaining |-> rest.remaining,
           payments |-> <<[method |-> mapPaymentMethod(Get(payment, "method")),
                           amountCents |-> appliedCents]>> \o rest.payments]

\* the totals an order comes to, in cents
Totals == {0, 100, 150}

\* the amounts a payment is offered with: 0.004, 0.50, 1.00, 1.006, -3.00,
\* 1e999, and none
Amounts == {JNum(4), JNum(500), JNum(1000), JNum(1006), JNum(-3000), JInf, JUndef}

Payment(method, amount) ==
  JObj(IF amount = JUndef THEN [method |-> JStr(method)]
       ELSE [method |-> JStr(method), amount |-> amount])

\* body.payments: absent, or an array of payments, or an array with a null entry
Bodies ==
  {JUndef, JArr(<<Payment("cash", JNum(1000)), JNull>>)}
    \cup UNION {{JArr([i \in 1..n |-> Payment(IF i = 1 THEN "cash" ELSE "card", a[i])]) :
                   a \in [1..n -> Amounts]} : n \in 0..MaxPayments}

\* a request whose items came to totalCents is at line 124
PayInit ==
  /\ RelayInit
  /\ pages = NoPages
  /\ order \in {[step |-> "request", totalCents |-> t, body |-> b] : t \in Totals, b \in Bodies}

\* lines 124-141: the payments are applied and the order is stored; a null
\* entry of body.payments throws and the catch answers 500
CreateOrder ==
  /\ order.step = "request"
  /\ LET offered == IF order.body.k = "array" THEN order.body.a ELSE <<>>
     IN IF \E i \in 1..Len(offered) : Throws(offered[i])
        THEN order' = [step |-> "failed", totalCents |-> order.totalCents, body |-> order.body]
        ELSE LET r == applyPayments(JNum(order.totalCents), offered)
             IN order' = [step |-> "stored",
                          totalCents |-> order.totalCents,
                          body |-> order.body,
                          remaining |-> r.remaining,
                          payments |-> SelectSeq(r.payments, LAMBDA p : Positive(p.amountCents)),
                          status |-> IF NotPositive(r.remaining) THEN "PAID" ELSE "OPEN"]
  /\ UNCHANGED <<relayVars, pages>>

PayNext == CreateOrder

PaySpec == PayInit /\ [][PayNext]_vars

(***************************************************************************)
(* Reading a stored order.                                                 *)
(***************************************************************************)
RECURSIVE SumCents(_)
SumCents(ps) == IF ps = <<>> THEN 0 ELSE Head(ps).amountCents.n + SumCents(Tail(ps))

\* what a payment offers, in cents: nothing when it carries no usable amount
OfferedCents(payment) ==
  LET cents == toCents(Get(payment, "amount"))
  IN IF cents.k = "NaN" THEN JNum(0) ELSE cents

\* the amounts to record for a balance and the offers that follow, zero
\* amounts left out
RECURSIVE AmountsDue(_, _)
AmountsDue(balance, offered) ==
  IF offered = <<>> THEN <<>>
  ELSE LET due == MathMin(JNum(balance), OfferedCents(Head(offered))).n
       IN (IF due > 0 THEN <<due>> ELSE <<>>) \o AmountsDue(balance - due, Tail(offered))

Stored == order.step = "stored"

\* the payments the request offered
Offered == IF order.body.k = "array" THEN order.body.a ELSE <<>>

(***************************************************************************)
(* C30.  In a stored order the payments are applied in the order given,    *)
(* each recorded with min(remaining balance, amount offered in cents),     *)
(* the balance starting at totalCents; the balance left is not negative,   *)
(* the recorded amounts sum to at most totalCents, no payment is recorded  *)
(* with amount 0, and the order is PAID exactly when the recorded amounts  *)
(* sum to totalCents, OPEN otherwise.                                      *)
(***************************************************************************)
C30_PaymentsAppliedInOrder ==
  Stored =>
    /\ [i \in 1..Len(order.payments) |-> order.payments[i].amountCents.n]
         = AmountsDue(order.totalCents, Offered)
    /\ ~(order.remaining.k = "number" /\ order.remaining.n < 0)
    /\ SumCents(order.payments) <= order.totalCents
    /\ \A i \in 1..Len(order.payments) : order.payments[i].amountCents.n > 0
    /\ order.status = (IF SumCents(order.payments) = order.totalCents THEN "PAID" ELSE "OPEN")

(***************************************************************************)
(* The connection loop of a client page (waiter terminal: unnamed/part_001 *)
(* lines 200-260; the kitchen and admin pages run the same loop), with the *)
(* waiter's pending queues.  The page is followed from the first run of    *)
(* its effect; the network is free to open or close a socket at any time.  *)
(***************************************************************************)
\* sockets one page creates
MaxSockets == 3
\* orders checked out on the waiter terminal
MaxOrders == 2
\* clock ticks the page is followed for
MaxTicks == 7

\* milliseconds per clock tick
TickMs == 500

\* window.setTimeout(connect, 1500)
ReconnectDelay == 1500

PageKinds == {"waiter", "kitchen", "admin"}

\* connect(): nothing when disposed, else a new WebSocket held in socketRef
connect(p) ==
  IF p.disposed THEN p
  ELSE [p EXCEPT !.socketStatus = "connecting",
                 !.sockets = Append(@, [readyState |-> "CONNECTING", opened |-> FALSE]),
                 !.socketRef = Len(p.sockets) + 1]

\* the effect has run: connect() was called once
Mounted(kind) ==
  connect([kind |-> kind,
           disposed |-> FALSE,
           socketStatus |-> "connecting",
           sockets |-> <<>>,
           socketRef |-> 0,
           timers |-> <<>>,
           reconnectTimerRef |-> 0,
           clock |-> 0,
           pendingTickets |-> <<>>,
           pendingSales |-> <<>>,
           sent |-> <<>>,
           receiptCounter |-> 1])

LoopInit ==
  /\ RelayInit
  /\ order = NoOrder
  /\ pages \in {<<Mounted(kind)>> : kind \in PageKinds}

\* socket.readyState === WebSocket.OPEN for the socket in socketRef
SocketIsOpen(p) == p.socketRef # 0 /\ p.sockets[p.socketRef].readyState = "OPEN"

\* ws.close()
close(sockets, s) ==
  IF sockets[s].readyState \in {"CONNECTING", "OPEN"}
  THEN [sockets EXCEPT ![s].readyState = "CLOSING"] ELSE sockets

\* ws.send of one event on socket s
Sent(s, type, n) == [socket |-> s, type |-> type, n |-> n]

SentAll(s, type, queue) == [i \in 1..Len(queue) |-> Sent(s, type, queue[i])]

\* a bug: the event is sent and is queued as well
sendTicketAndQueue(p, ticket) ==
  IF ~SocketIsOpen(p)
  THEN [p EXCEPT !.pendingTickets = Append(@, ticket)]
  ELSE [p EXCEPT !.sent = Append(@, Sent(p.socketRef, "NEW_ORDER", ticket)),
                 !.pendingTickets = Append(@, ticket)]

\* sendTicket(ticket)
sendTicket(p, ticket) ==
  IF ~SocketIsOpen(p)
  THEN [p EXCEPT !.pendingTickets = Append(@, ticket)]
  ELSE [p EXCEPT !.sent = Append(@, Sent(p.socketRef, "NEW_ORDER", ticket))]

\* sendSale(sale)
sendSale(p, sale) ==
  IF ~SocketIsOpen(p)
  THEN [p EXCEPT !.pendingSales = Append(@, sale)]
  ELSE [p EXCEPT !.sent = Append(@, Sent(p.socketRef, "NEW_SALE", sale))]

\* the end of the waiter's checkout: the ticket and the sale of the receipt
\* are handed to sendTicket and sendSale
Checkout ==
  LET p == pages[1]
  IN /\ p.kind = "waiter"
     /\ p.receiptCounter <= MaxOrders
     /\ pages' = <<[sendSale(sendTicket(p, p.receiptCounter), p.receiptCounter)
                      EXCEPT !.receiptCounter = @ + 1]>>
     /\ UNCHANGED <<relayVars, order>>

\* ws.onopen of socket s, which the platform has just set OPEN
onopen(p, s) ==
  IF p.disposed
  THEN [p EXCEPT !.sockets = close(p.sockets, s)]
  ELSE IF p.kind = "waiter" /\ (Len(p.pendingTickets) > 0 \/ Len(p.pendingSales) > 0)
  THEN [p EXCEPT !.socketStatus = "connected",
                 !.sent = @ \o SentAll(s, "NEW_ORDER", p.pendingTickets)
                            \o SentAll(s, "NEW_SALE", p.pendingSales),
                 !.pendingTickets = <<>>,
                 !.pendingSales = <<>>]
  ELSE [p EXCEPT !.socketStatus = "connected"]

\* the connection of socket s is established: the open event is dispatched.
\* The event of a connection that completed just before close() was called
\* is still dispatched.
SocketOpens(s) ==
  LET p == pages[1]
  IN /\ s \in 1..Len(p.sockets)
     /\ ~p.sockets[s].opened
     /\ p.sockets[s].readyState \in {"CONNECTING", "CLOSING"}
     /\ pages' = <<onopen([p EXCEPT !.sockets[s] = [readyState |-> "OPEN", opened |-> TRUE]], s)>>
     /\ UNCHANGED <<relayVars, order>>

\* a bug: the reconnect is scheduled whether or not the page is disposed
oncloseAlways(p) ==
  [p EXCEPT !.socketStatus = "disconnected",
            !.timers = Append(@, [due |-> p.clock + ReconnectDelay, state |-> "pending"]),
            !.reconnectTimerRef = Len(p.timers) + 1]

\* ws.onclose
onclose(p) ==
  IF p.disposed THEN p
  ELSE [p EXCEPT !.socketStatus = "disconnected",
                 !.timers = Append(@, [due |-> p.clock + ReconnectDelay, state |-> "pending"]),
                 !.reconnectTimerRef = Len(p.timers) + 1]

\* ws.onerror
onerror(p) == [p EXCEPT !.socketStatus = "disconnected"]

\* the connection of socket s fails: the error event is dispatched (the close
\* event follows)
SocketErrors(s) ==
  LET p == pages[1]
  IN /\ s \in 1..Len(p.sockets)
     /\ p.sockets[s].readyState # "CLOSED"
     /\ pages' = <<onerror(p)>>
     /\ UNCHANGED <<relayVars, order>>

\* the connection of socket s fails or ends: the close event is dispatched
SocketCloses(s) ==
  LET p == pages[1]
  IN /\ s \in 1..Len(p.sockets)
     /\ p.sockets[s].readyState # "CLOSED"
     /\ pages' = <<onclose([p EXCEPT !.sockets[s].readyState = "CLOSED"])>>
     /\ UNCHANGED <<relayVars, order>>

\* a reconnect timer is due: connect() runs
TimerFires(i) ==
  LET p == pages[1]
  IN /\ i \in 1..Len(p.timers)
     /\ p.timers[i].state = "pending"
     /\ p.clock >= p.timers[i].due
     /\ Len(p.sockets) < MaxSockets
     /\ pages' = <<connect([p EXCEPT !.timers[i].state = "fired"])>>
     /\ UNCHANGED <<relayVars, order>>

\* the effect's cleanup, when the page is unmounted
Unmount ==
  LET p == pages[1]
      cleared == IF p.reconnectTimerRef # 0 /\ p.timers[p.reconnectTimerRef].state = "pending"
                 THEN [p.timers EXCEPT ![p.reconnectTimerRef].state = "cancelled"]
                 ELSE p.timers
  IN /\ ~p.disposed
     /\ pages' = <<[p EXCEPT !.disposed = TRUE,
                             !.timers = cleared,
                             !.sockets = IF p.socketRef # 0 THEN close(@, p.socketRef) ELSE @]>>
     /\ UNCHANGED <<relayVars, order>>

\* time passes on the page
PageTick ==
  LET p == pages[1]
  IN /\ p.clock < MaxTicks * TickMs
     /\ pages' = <<[p EXCEPT !.clock = @ + TickMs]>>
     /\ UNCHANGED <<relayVars, order>>

LoopNext ==
  \/ Checkout
  \/ \E s \in 1..MaxSockets : SocketOpens(s)
  \/ \E s \in 1..MaxSockets : SocketErrors(s)
  \/ \E s \in 1..MaxSockets : SocketCloses(s)
  \/ \E i \in 1..MaxSockets : TimerFires(i)
  \/ Unmount
  \/ PageTick

LoopSpec == LoopInit /\ [][LoopNext]_vars

(***************************************************************************)
(* Reading the page's connection loop.                                     *)
(***************************************************************************)
\* the sockets of a page that are not closed
Live(p) == {s \in 1..Len(p.sockets) : p.sockets[s].readyState # "CLOSED"}

\* the reconnect timers of a page that are set and have not run
PendingTimers(p) == {i \in 1..Len(p.timers) : p.timers[i].state = "pending"}

\* how often x occurs in a sequence
Count(seq, x) == Cardinality({i \in 1..Len(seq) : seq[i] = x})

\* how often event n of a type was sent, on whatever socket
TimesSent(p, type, n) ==
  Cardinality({i \in 1..Len(p.sent) : p.sent[i].type = type /\ p.sent[i].n = n})

(***************************************************************************)
(* C23.  On the waiter terminal a ticket or sale handed to sendTicket or   *)
(* sendSale while the socket is missing or not open is appended to its     *)
(* pending queue and stays there until a socket opens; when a socket opens *)
(* on the mounted page all pending tickets and then all pending sales are  *)
(* sent on it in queue order and both queues are emptied; an event handed  *)
(* over while the socket is open is sent at once and not queued.  So every *)
(* event handed over is, at any time, either once in its queue or sent     *)
(* once, never both and never twice.                                       *)
(***************************************************************************)
C23_PendingSentOnceInOrder ==
  [][LET p == pages[1]
         q == pages'[1]
         n == p.receiptCounter
         opens == \E s \in 1..Len(p.sockets) : ~p.sockets[s].opened /\ q.sockets[s].opened
         s == q.socketRef
     IN p.kind = "waiter" =>
          /\ (q.receiptCounter # n /\ ~SocketIsOpen(p)) =>
               /\ q.pendingTickets = Append(p.pendingTickets, n)
               /\ q.pendingSales = Append(p.pendingSales, n)
               /\ q.sent = p.sent
          /\ (q.receiptCounter # n /\ SocketIsOpen(p)) =>
               /\ q.sent = p.sent \o <<Sent(s, "NEW_ORDER", n), Sent(s, "NEW_SALE", n)>>
               /\ q.pendingTickets = p.pendingTickets /\ q.pendingSales = p.pendingSales
          /\ (opens /\ ~p.disposed) =>
               /\ q.sent = p.sent
                    \o [i \in 1..Len(p.pendingTickets) |-> Sent(s, "NEW_ORDER", p.pendingTickets[i])]
                    \o [i \in 1..Len(p.pendingSales) |-> Sent(s, "NEW_SALE", p.pendingSales[i])]
               /\ q.pendingTickets = <<>> /\ q.pendingSales = <<>>
               /\ q.sockets[s].readyState = "OPEN"
          /\ (~opens /\ ~q.disposed) =>
               IsPrefix(p.pendingTickets, q.pendingTickets) /\ IsPrefix(p.pendingSales, q.pendingSales)
          /\ \A e \in 1..(q.receiptCounter - 1) :
               /\ Count(q.pendingTickets, e) + TimesSent(q, "NEW_ORDER", e) = 1
               /\ Count(q.pendingSales, e) + TimesSent(q, "NEW_SALE", e) = 1]_vars

\* two orders were checked out while the first socket was not open; the
\* second socket opened and both tickets, then both sales, were sent on it
C23_Witness ==
  LET p == pages[1]
  IN /\ p.kind = "waiter" /\ ~p.disposed
     /\ p.sent = <<Sent(2, "NEW_ORDER", 1), Sent(2, "NEW_ORDER", 2),
                   Sent(2, "NEW_SALE", 1), Sent(2, "NEW_SALE", 2)>>
     /\ p.pendingTickets = <<>> /\ p.pendingSales = <<>>

(***************************************************************************)
(* C29.  In a page's connection loop at most one socket that is not closed *)
(* exists at any time; a close on the mounted page sets exactly one        *)
(* reconnect timer, due 1500 ms later, and creates no socket itself; a     *)
(* socket is created only by that timer, when it is due, on a mounted page *)
(* with no socket left; once the page is disposed no socket is created, no *)
(* timer is left pending or set, and a socket that opens is closed in its  *)
(* open handler (it is never left OPEN) with nothing sent on it.           *)
(***************************************************************************)
C29_OneSocketOneReconnect ==
  [][LET p == pages[1]
         q == pages'[1]
         closes == \E s \in 1..Len(p.sockets) :
                     p.sockets[s].readyState # "CLOSED" /\ q.sockets[s].readyState = "CLOSED"
     IN /\ Cardinality(Live(q)) <= 1
        /\ (closes /\ ~p.disposed) =>
             /\ Len(q.timers) = Len(p.timers) + 1
             /\ q.timers[Len(q.timers)] = [due |-> p.clock + 1500, state |-> "pending"]
             /\ PendingTimers(q) = {Len(q.timers)}
             /\ Len(q.sockets) = Len(p.sockets)
        /\ Len(q.sockets) # Len(p.sockets) =>
             /\ Len(q.sockets) = Len(p.sockets) + 1
             /\ ~q.disposed
             /\ Live(p) = {}
             /\ \E i \in PendingTimers(p) :
                  p.clock >= p.timers[i].due /\ q.timers[i].state = "fired"
             /\ PendingTimers(q) = {}
        /\ q.disposed =>
             /\ Len(q.sockets) = Len(p.sockets)
             /\ PendingTimers(q) = {}
             /\ \A s \in 1..Len(q.sockets) : q.sockets[s].readyState # "OPEN"
             /\ q.sent = p.sent]_vars

\* the first socket closed, the timer ran 1500 ms later and created the second
\* socket; the page was then unmounted and the second socket opened afterwards
\* (the page never showed "connected" for it) and was closed by its handler
C29_Witness ==
  LET p == pages[1]
  IN /\ p.disposed
     /\ Len(p.sockets) = 2
     /\ p.sockets[1].readyState = "CLOSED"
     /\ p.sockets[2] = [readyState |-> "CLOSING", opened |-> TRUE]
     /\ p.socketStatus = "connecting"
     /\ p.timers = <<[due |-> 1500, state |-> "fired"]>>
     /\ p.clock = 1500

(***************************************************************************)
(* Kitchen displays (app/kitchen/page.tsx) on the relay.  Each display     *)
(* holds its ticket list, the connection its socket is (0: none), how many *)
(* of the messages sent to it it has processed, and the frames it has sent *)
(* that the relay has not been handed yet.  The waiter terminals'          *)
(* connections are not followed: only the frames they send are.            *)
(***************************************************************************)
\* displays that are mounted
Displays == 1..2

\* frames a display has sent that are still under way
MaxUp == 1
\* status changes a display makes while its socket is not open
MaxOffline == 2

\* the page after its first render, before its socket opens
KitchenPage ==
  [kind |-> "kitchen", tickets |-> <<>>, conn |-> 0, seen |-> 0, up |-> <<>>,
   statusMessage |-> "", offline |-> 0]

KitchenInit ==
  /\ RelayInit
  /\ order = NoOrder
  /\ pages = [d \in Displays |-> KitchenPage]

\* the setTickets updater of a status change: a done ticket is filtered out,
\* any other status is written into the ticket with that id
applyStatus(tickets, id, status) ==
  IF status = "done"
  THEN SelectSeq(tickets, LAMBDA t : t.id # id)
  ELSE [i \in 1..Len(tickets) |->
          IF tickets[i].id = id THEN [tickets[i] EXCEPT !.status = status] ELSE tickets[i]]

\* ws.onmessage of the kitchen page
kitchenOnMessage(p, m) ==
  IF m.type = "ORDER_SNAPSHOT"
  THEN [p EXCEPT !.tickets = SelectSeq(m.payload.a, LAMBDA t : t.status # "done")]
  ELSE IF m.type = "NEW_ORDER"
  THEN [p EXCEPT !.tickets = <<m.payload>> \o SelectSeq(@, LAMBDA t : t.id # m.payload.id),
                 !.statusMessage = "new ticket"]
  ELSE IF m.type = "UPDATE_ORDER_STATUS"
  THEN [p EXCEPT !.tickets = applyStatus(@, m.payload.id, m.payload.status)]
  ELSE p

\* socket && socket.readyState === WebSocket.OPEN
DisplayOnline(p) == p.conn # 0 /\ readyState[p.conn] = "OPEN"

\* a bug: a change made offline is kept to be sent later
updateTicketStatusQueueing(p, id, status) ==
  LET local == [p EXCEPT !.tickets = applyStatus(@, id, status)]
      message == Envelope("UPDATE_ORDER_STATUS", JObj([id |-> JStr(id), status |-> JStr(status)]))
  IN IF ~DisplayOnline(p)
     THEN [local EXCEPT !.statusMessage = "offline", !.offline = @ + 1, !.up = Append(@, message)]
     ELSE [local EXCEPT !.up = Append(@, message)]

\* updateTicketStatus(id, status)
updateTicketStatus(p, id, status) ==
  LET local == [p EXCEPT !.tickets = applyStatus(@, id, status)]
      message == Envelope("UPDATE_ORDER_STATUS", JObj([id |-> JStr(id), status |-> JStr(status)]))
  IN IF ~DisplayOnline(p)
     THEN [local EXCEPT !.statusMessage = "offline", !.offline = @ + 1]
     ELSE [local EXCEPT !.up = Append(@, message)]

\* the buttons of a ticket: Start or Reopen, and Done
Buttons(ticket) == {IF ticket.status = "new" THEN "in_progress" ELSE "new", "done"}

\* the socket of display d opens as relay connection c: wss.on("connection")
\* on the relay, ws.onopen on the page
DisplayConnects(d, c) ==
  /\ pages[d].conn = 0
  /\ Connect(c)
  /\ pages' = [pages EXCEPT ![d] = [@ EXCEPT !.conn = c, !.seen = 0, !.up = <<>>,
                                              !.statusMessage = "connected"]]
  /\ UNCHANGED order

\* display d processes the next message sent to it
DisplayReceives(d) ==
  LET p == pages[d]
  IN /\ p.conn # 0
     /\ p.seen < Len(outbox[p.conn])
     /\ pages' = [pages EXCEPT ![d] =
                    kitchenOnMessage([p EXCEPT !.seen = @ + 1], outbox[p.conn][p.seen + 1])]
     /\ UNCHANGED <<relayVars, order>>

\* a button of a ticket shown on display d is pressed
DisplayUpdates(d, id, status) ==
  LET p == pages[d]
  IN /\ \E i \in 1..Len(p.tickets) : p.tickets[i].id = id /\ status \in Buttons(p.tickets[i])
     /\ IF DisplayOnline(p) THEN Len(p.up) < MaxUp ELSE p.offline < MaxOffline
     /\ pages' = [pages EXCEPT ![d] = updateTicketStatus(p, id, status)]
     /\ UNCHANGED <<relayVars, order>>

\* the oldest frame display d has sent reaches the relay
DisplaySends(d) ==
  LET p == pages[d]
  IN /\ p.conn # 0
     /\ p.up # <<>>
     /\ Deliver(p.conn, Head(p.up))
     /\ pages' = [pages EXCEPT ![d].up = Tail(p.up)]
     /\ UNCHANGED order

\* the connection of display d is closed: ws.onclose on the page; the frames
\* still under way are lost
DisplayCloses(d) ==
  LET p == pages[d]
  IN /\ p.conn # 0
     /\ FinishClose(p.conn)
     /\ pages' = [pages EXCEPT ![d] = [@ EXCEPT !.conn = 0, !.seen = 0, !.up = <<>>,
                                                !.statusMessage = "disconnected"]]
     /\ UNCHANGED order

\* the frames the waiter terminals send
ProducerFrames ==
  {Envelope("NEW_ORDER", JObj(TicketFields("t1"))),
   Envelope("NEW_ORDER", JObj(RevisedFields("t1"))),
   Envelope("NEW_ORDER", JObj(OddFields("t2")))}

\* a "message" event of a waiter terminal's connection is dispatched
Produce(raw) ==
  /\ running
  /\ inFlight = NoFrame
  /\ applied < MaxApplied
  /\ inFlight' = [conn |-> MaxConn + 1, raw |-> raw]
  /\ UNCHANGED <<activeTickets, salesByDay, readyState, outbox, last, applied, now, running>>

\* two displays that stay connected, and the waiter terminals
KitchenNext ==
  \/ \E d \in Displays, c \in Conns : DisplayConnects(d, c)
  \/ \E d \in Displays : DisplayReceives(d)
  \/ \E d \in Displays, id \in {"t1", "t2"}, status \in {"new", "in_progress", "done"} :
       DisplayUpdates(d, id, status)
  \/ \E d \in Displays : DisplaySends(d)
  \/ \E raw \in ProducerFrames : Produce(raw) /\ UNCHANGED <<pages, order>>
  \/ HandleMessage /\ UNCHANGED <<pages, order>>

KitchenSpec == KitchenInit /\ [][KitchenNext]_vars

\* one display whose connection is closed and opened again
ReconnectInit ==
  /\ RelayInit
  /\ order = NoOrder
  /\ pages = [d \in {1} |-> KitchenPage]

ReconnectNext ==
  \/ \E c \in Conns : DisplayConnects(1, c)
  \/ DisplayReceives(1)
  \/ \E id \in {"t1", "t2"}, status \in {"new", "in_progress", "done"} :
       DisplayUpdates(1, id, status)
  \/ DisplaySends(1)
  \/ DisplayCloses(1)
  \/ \E raw \in ProducerFrames : Produce(raw) /\ UNCHANGED <<pages, order>>
  \/ HandleMessage /\ UNCHANGED <<pages, order>>
  \/ \E c \in Conns : BeginClose(c) /\ UNCHANGED <<pages, order>>

ReconnectSpec == ReconnectInit /\ [][ReconnectNext]_vars

(***************************************************************************)
(* Reading a display.                                                      *)
(***************************************************************************)
\* display d is connected and up to date: it has processed its snapshots and
\* every message sent to it, and the relay has handled every frame it sent
UpToDate(d) ==
  LET p == pages[d]
  IN /\ DisplayOnline(p)
     /\ p.seen >= 2
     /\ p.seen = Len(outbox[p.conn])
     /\ p.up = <<>>
     /\ (inFlight = NoFrame \/ inFlight.conn # p.conn)

\* the tickets of a list, as a set
Shown(tickets) == {tickets[i] : i \in 1..Len(tickets)}

(***************************************************************************)
(* C26.  A display that is connected and up to date shows exactly the      *)
(* tickets of the relay's active-ticket map: the same ids, each with the   *)
(* status and the content the relay holds, whatever the order; no id shows *)
(* twice and no shown ticket is done.  Two displays and the waiter         *)
(* terminals act on the same tickets in every order.                       *)
(***************************************************************************)
C26_DisplayShowsRelayTickets ==
  \A d \in DOMAIN pages :
    UpToDate(d) =>
      LET tickets == pages[d].tickets
      IN /\ Shown(tickets) = {activeTickets[i][2] : i \in 1..Len(activeTickets)}
         /\ \A i, j \in 1..Len(tickets) : tickets[i].id = tickets[j].id => i = j
         /\ \A i \in 1..Len(tickets) : tickets[i].status # "done"

(***************************************************************************)
(* C28.  A status change made on a display whose socket is missing or not  *)
(* open changes the display's own list and nothing else: no frame is sent  *)
(* or kept for later, and the relay's state is as before.  When the        *)
(* display's socket opens again, the relay's ORDER_SNAPSHOT is the relay's *)
(* active set, and processing it makes the display's list that set: what   *)
(* was changed offline is shown as the relay holds it.                     *)
(***************************************************************************)
C28_OfflineChangeIsLocalAndReverted ==
  [][\A d \in DOMAIN pages :
       LET p == pages[d]
           q == pages'[d]
       IN /\ q.offline # p.offline =>
               /\ ~DisplayOnline(p)
               /\ q.tickets # p.tickets
               /\ q.up = p.up
               /\ q.conn = p.conn
               /\ <<activeTickets, salesByDay, outbox, inFlight>>'
                    = <<activeTickets, salesByDay, outbox, inFlight>>
          /\ (~DisplayOnline(p) /\ q.conn = p.conn /\ q.seen = p.seen /\ q.tickets # p.tickets) =>
               q.offline = p.offline + 1
          /\ (p.conn = 0 /\ q.conn # 0) =>
               outbox'[q.conn][1] =
                 [type |-> "ORDER_SNAPSHOT",
                  payload |-> JArr([i \in 1..Len(activeTickets) |-> Wire(activeTickets[i][2])])]
          /\ (p.seen = 0 /\ q.seen = 1) =>
               q.tickets = outbox[p.conn][1].payload.a]_vars

\* the display saw ticket t1 on its first connection, lost the connection,
\* changed or completed the ticket while offline, and has processed the
\* snapshot of its second connection: it shows t1 as the relay holds it, new
C28_Witness ==
  LET p == pages[1]
  IN /\ p.offline = 1
     /\ p.conn = 2 /\ readyState[2] = "OPEN" /\ p.seen = 1
     /\ applied = 1
     /\ Len(activeTickets) = 1 /\ activeTickets[1][2].id = "t1"
     /\ p.tickets = <<Wire(activeTickets[1][2])>>
     /\ p.tickets[1].status = "new"

(***************************************************************************)
(* The admin dashboard (app/admin/page.tsx) on the relay: the sales it     *)
(* lists, the day of its snapshot (dayRef), its connection and how many of *)
(* the messages sent to it it has processed.                               *)
(***************************************************************************)
AdminPage == [kind |-> "admin", sales |-> <<>>, day |-> "", conn |-> 0, seen |-> 0]

AdminInit ==
  /\ RelayInit
  /\ order = NoOrder
  /\ pages = <<AdminPage>>

\* toDayKey of the admin page: "" for a createdAt that is not a timestamp
adminToDayKey(createdAt) ==
  IF ParseDate(createdAt) = -1 THEN "" ELSE DayKey(DayOf(ParseDate(createdAt)))

\* ws.onmessage of the admin page
adminOnMessage(p, m) ==
  IF m.type = "SALES_SNAPSHOT"
  THEN [p EXCEPT !.day = m.payload.day, !.sales = m.payload.sales]
  ELSE IF m.type = "NEW_SALE"
  THEN IF p.day # "" /\ adminToDayKey(m.payload.createdAt) # p.day
       THEN p
       ELSE [p EXCEPT !.sales = <<m.payload>> \o @]
  ELSE p

\* the dashboard's socket opens as relay connection c
AdminConnects(c) ==
  /\ pages[1].conn = 0
  /\ Connect(c)
  /\ pages' = <<[pages[1] EXCEPT !.conn = c, !.seen = 0]>>
  /\ UNCHANGED order

\* the dashboard processes the next message sent to it
AdminReceives ==
  LET p == pages[1]
  IN /\ p.conn # 0
     /\ p.seen < Len(outbox[p.conn])
     /\ pages' = <<adminOnMessage([p EXCEPT !.seen = @ + 1], outbox[p.conn][p.seen + 1])>>
     /\ UNCHANGED <<relayVars, order>>

\* the sales the waiter terminals send
ProducerSales == {Envelope("NEW_SALE", p) : p \in SaleVariants}

AdminNext ==
  \/ \E c \in Conns : AdminConnects(c)
  \/ AdminReceives
  \/ \E raw \in ProducerSales : Produce(raw) /\ UNCHANGED <<pages, order>>
  \/ HandleMessage /\ UNCHANGED <<pages, order>>
  \/ Tick /\ UNCHANGED <<pages, order>>

AdminSpec == AdminInit /\ [][AdminNext]_vars

(***************************************************************************)
(* C27.  A dashboard that is connected, has processed its SALES_SNAPSHOT   *)
(* and every NEW_SALE sent to it, on the calendar day of its snapshot,     *)
(* lists exactly the sales of the relay's bucket for that day, each as     *)
(* often as the bucket holds it, whatever the createdAt of the sales       *)
(* accepted since: a timestamp of that day, of another day, or no          *)
(* timestamp at all.                                                       *)
(***************************************************************************)
C27_DashboardShowsDayBucket ==
  LET p == pages[1]
  IN (/\ p.conn # 0 /\ readyState[p.conn] = "OPEN"
      /\ p.seen >= 2 /\ p.seen = Len(outbox[p.conn])
      /\ inFlight = NoFrame
      /\ DayKey(DayOf(now)) = p.day)
       => LET bucket == WireAll(Bucket(salesByDay, p.day))
          IN \A sale \in Range(bucket) \cup Range(p.sales) :
               Count(p.sales, sale) = Count(bucket, sale)

====
